---- MODULE Spec2Model ----
(***************************************************************************)
(* A model of the Hide404 RAG API service.                                 *)
(*                                                                         *)
(* The subsystems are modelled each with its own specification:            *)
(*   SpecPool       ConnectionPool.get_connection, Database.transaction    *)
(*                  and ConnectionPool.close_all, used by several threads. *)
(*   SpecSingleton  the per-class singleton built by Database.__new__ and  *)
(*                  the managers' __init__ (SpecSingletonLib adds direct   *)
(*                  constructions of the base class Database).             *)
(*   Spec           the HTTP routes GET /id, GET /event and POST /upload   *)
(*                  with the upload controller, interleaved at awaits.     *)
(*   SpecRag        the routes GET /file, chat, learn and forget over the  *)
(*                  file manager and the RAG engine.                       *)
(*   SpecEvents     direct calls of the EventManager methods.              *)
(*   SpecStore      SpecRag with delete_event and clean_expired_events.    *)
(*   SpecLib        direct calls of FileManager and RAGSystem methods.     *)
(*   SpecMain       the start of main.py and get_config.                   *)
(*   SpecServe      SpecRag with the ways out of the serve call of main.py.*)
(*   SpecFair       Spec with the upload controller scheduled fairly.      *)
(*   SpecDbFails    Spec with writes of the event database that raise.     *)
(*   SpecCollections  the collection methods of RAGSystem with builds that *)
(*                  raise or break off.                                    *)
(*   SpecFiles      the path an upload stores a file at and the documents  *)
(*                  learn loads.                                           *)
(*   SpecManagers   the managers' calls on a pool of one connection.       *)
(***************************************************************************)
EXTENDS Naturals, Integers, Sequences, FiniteSets, TLC

(***************************************************************************)
(* Bounds of the model.                                                    *)
(***************************************************************************)
\* largest max_connections a pool is constructed with
MaxPoolSize == 1
\* callers (threads) that use one pool concurrently
NumThreads == 2
\* connections a pool opens over its life (initial ones and replacements)
MaxOpened == 2
\* rows and tables that all transactions together write
MaxRows == 1

(***************************************************************************)
(* Program constants.                                                      *)
(***************************************************************************)
\* Database.__new__(cls, db_path, max_connections=1)
DefaultMaxConnections == 1

NoConn == 0
Threads == 1..NumThreads
ConnIds == 1..MaxOpened
Rows == 1..MaxRows

VARIABLES
  \* ---- ConnectionPool / Database.transaction (db_manager.py) ----
  max_connections,  \* ConnectionPool.max_connections
  pool,             \* ConnectionPool.pool: the Queue, oldest entry first
  in_use,           \* the DatabaseConnection objects whose in_use flag is True
  closed,           \* the connections whose sqlite3 connection has been closed
  opened,           \* number of connections _create_connection has returned
  held,             \* per caller: the local variable `connection` of get_connection
  pc,               \* per caller: its position in transaction()/get_connection()
  exc,              \* per caller: an exception is propagating out of the block
  work,             \* per connection: what its open, uncommitted transaction has written
  db,               \* the committed content of the database file (rows and tables)
  nextRow,          \* next fresh id of a row or table
  closedAll,        \* close_all has been called
  \* ---- history of the pool (not program state) ----
  wrote,            \* per caller: rows its current block has inserted
  snap,             \* per caller: db when its block started
  committedRows,    \* rows inserted by blocks that exited normally and committed
  abortedRows,      \* rows inserted by blocks that raised
  blocked,          \* per caller: it called get_connection on an exhausted pool
  \* ---- Database.__new__ and the managers (db_manager.py, *_manager.py) ----
  _instance,        \* per class: its own class attribute _instance
  instances,        \* the objects created so far, in creation order
  connsOpened,      \* connections opened by all ConnectionPool constructions
  ret,              \* per class: the object its latest construction returned
  calls,            \* per class: the arguments of its constructions, in order
  \* ---- the HTTP routes and the upload controller (router.py, upload_controller.py) ----
  UNUSED_ID_CACHE,  \* var.UNUSED_ID_CACHE: its keys, oldest first
  unusedMaxsize,    \* var.CONFIG.cache.unused_id.maxsize
  CACHE,            \* var.CACHE: event id -> event dict
  cacheAge,         \* the keys of var.CACHE in the order they were set (expiry order)
  cacheLru,         \* the keys of var.CACHE, least recently used first
  cacheMaxsize,     \* var.CONFIG.cache.general.maxsize
  nextUlid,         \* the next id generate_ulid returns
  eventTables,      \* the tables of the event database
  eventRows,        \* the rows of the event table "upload": event id -> row
  fileTables,       \* the file database: collection name -> its rows
  up,               \* per upload request in flight: the locals of upload / v1_upload
  answer,           \* what the step just taken answered, if it was the head of an upload
  response,         \* the HTTP response the step just taken sent, if it sent one
  \* ---- RAGSystem (rag_system.py) ----
  vector_stores,    \* the keys of RAGSystem.vector_stores: the loaded collections
  chroma,           \* the collections of the persistent Chroma client
  forgotten,        \* history: the collections a DELETE /forget has removed
  \* ---- history of the routes (not program state) ----
  issued,           \* the ids GET /id has returned
  consumed,         \* the supplied trace ids of accepted uploads
  progress_log,     \* per upload request: the progress values _update_event wrote
  \* ---- direct calls of the managers and of RAGSystem ----
  result,           \* what the call just made returned or raised
  \* ---- the entrypoint (main.py) and config/config.py ----
  document,         \* ./config/config.toml as toml.load reads it
  _CONFIG,          \* config.py's module global: <<>> for None, else <<the Config>>
  handles,          \* the names of share/var.py that main has assigned, in order
  mainPc,           \* the statement of main.py the process is at
  released,         \* what the finally clause of main has released, in order
  ending            \* how serve was left, and what the except clause did about it

poolVars == <<max_connections, pool, in_use, closed, opened, held, pc, exc, work,
              db, nextRow, closedAll, wrote, snap, committedRows, abortedRows,
              blocked>>

singletonVars == <<_instance, instances, connsOpened, ret, calls>>

httpVars == <<UNUSED_ID_CACHE, unusedMaxsize, CACHE, cacheAge, cacheLru,
              cacheMaxsize, nextUlid, eventTables, eventRows, fileTables, up,
              answer, response, vector_stores, chroma, forgotten, issued,
              consumed,
              progress_log>>

\* the variables no step of an upload or of GET /id, GET /event writes
ragVars == <<vector_stores, chroma, forgotten>>

libVars == <<result>>

mainVars == <<document, _CONFIG, handles, mainPc, released, ending>>

vars == <<poolVars, singletonVars, httpVars, libVars, mainVars>>

\* the variables outside each subsystem
NotPool == <<singletonVars, httpVars, libVars, mainVars>>
NotSingleton == <<poolVars, httpVars, libVars, mainVars>>
NotHttp == <<poolVars, singletonVars, libVars, mainVars>>

(***************************************************************************)
(* ConnectionPool                                                          *)
(***************************************************************************)
RECURSIVE SeqToSet(_)
SeqToSet(s) == IF s = <<>> THEN {} ELSE {Head(s)} \cup SeqToSet(Tail(s))

\* connections checked out: held by a caller between pool.get() and pool.put()
CheckedOut == {t \in Threads : held[t] # NoConn}

\* the connection that holds the database's write lock, if any (IMMEDIATE
\* isolation: the lock is taken when the transaction begins)
WriteLockHeldByOther(c) == \E o \in ConnIds : o # c /\ work[o] # {}

\* __init__ / _init_pool: max_connections connections are opened and queued
\* ConnectionPool(db_path, n) after __init__
InitPoolWith(n) ==
  /\ max_connections = n
  /\ pool = [i \in 1..max_connections |-> i]
  /\ opened = max_connections
  /\ in_use = {}
  /\ closed = {}
  /\ held = [t \in Threads |-> NoConn]
  /\ pc = [t \in Threads |-> "idle"]
  /\ exc = [t \in Threads |-> FALSE]
  /\ work = [c \in ConnIds |-> {}]
  /\ db = {}
  /\ nextRow = 1
  /\ closedAll = FALSE
  /\ wrote = [t \in Threads |-> {}]
  /\ snap = [t \in Threads |-> {}]
  /\ committedRows = {}
  /\ abortedRows = {}
  /\ blocked = [t \in Threads |-> FALSE]

InitPool == \E n \in 1..MaxPoolSize : InitPoolWith(n)

\* a caller enters `with self.transaction()`: get_connection runs up to pool.get()
Request(t) ==
  /\ pc[t] = "idle"
  /\ ~closedAll
  /\ pc' = [pc EXCEPT ![t] = "waiting"]
  /\ blocked' = [blocked EXCEPT ![t] = (pool = <<>>)]
  /\ UNCHANGED <<max_connections, pool, in_use, closed, opened, held, exc, work,
                 db, nextRow, closedAll, wrote, snap, committedRows, abortedRows>>
  /\ UNCHANGED NotPool

\* a get that does not wait: it fails on an empty queue
AcquireNoWait(t) ==
  /\ pc[t] = "waiting"
  /\ IF pool = <<>>
       THEN /\ pc' = [pc EXCEPT ![t] = "idle"]
            /\ UNCHANGED <<held, pool, in_use, snap, wrote>>
       ELSE /\ held' = [held EXCEPT ![t] = Head(pool)]
            /\ pool' = Tail(pool)
            /\ in_use' = in_use \cup {Head(pool)}
            /\ pc' = [pc EXCEPT ![t] = "in_block"]
            /\ snap' = [snap EXCEPT ![t] = db]
            /\ wrote' = [wrote EXCEPT ![t] = {}]
  /\ UNCHANGED <<max_connections, closed, opened, exc, work, db, nextRow,
                 closedAll, committedRows, abortedRows, blocked>>
  /\ UNCHANGED NotPool

\* a get that opens one more connection when the queue is empty
AcquireOrOpen(t) ==
  /\ pc[t] = "waiting"
  /\ IF pool = <<>>
       THEN /\ opened < MaxOpened
            /\ opened' = opened + 1
            /\ held' = [held EXCEPT ![t] = opened + 1]
            /\ in_use' = in_use \cup {opened + 1}
            /\ UNCHANGED pool
       ELSE /\ held' = [held EXCEPT ![t] = Head(pool)]
            /\ pool' = Tail(pool)
            /\ in_use' = in_use \cup {Head(pool)}
            /\ UNCHANGED opened
  /\ pc' = [pc EXCEPT ![t] = "in_block"]
  /\ snap' = [snap EXCEPT ![t] = db]
  /\ wrote' = [wrote EXCEPT ![t] = {}]
  /\ UNCHANGED <<max_connections, closed, exc, work, db, nextRow, closedAll,
                 committedRows, abortedRows, blocked>>
  /\ UNCHANGED NotPool

\* connection = self.pool.get(); connection.in_use = True; yield connection.connection
\* Queue.get() has no timeout: it returns only when the queue is not empty
Acquire(t) ==
  /\ pc[t] = "waiting"
  /\ pool # <<>>
  /\ held' = [held EXCEPT ![t] = Head(pool)]
  /\ pool' = Tail(pool)
  /\ in_use' = in_use \cup {Head(pool)}
  /\ pc' = [pc EXCEPT ![t] = "in_block"]
  /\ snap' = [snap EXCEPT ![t] = db]
  /\ wrote' = [wrote EXCEPT ![t] = {}]
  /\ UNCHANGED <<max_connections, closed, opened, exc, work, db, nextRow,
                 closedAll, committedRows, abortedRows, blocked>>
  /\ UNCHANGED NotPool

\* conn.execute("INSERT ...") inside the block: the statement begins the
\* transaction (BEGIN IMMEDIATE) if none is open and inserts a row
Execute(t) ==
  /\ pc[t] = "in_block"
  /\ held[t] \notin closed
  /\ ~WriteLockHeldByOther(held[t])
  /\ nextRow <= MaxRows
  /\ work' = [work EXCEPT ![held[t]] = @ \cup {nextRow}]
  /\ wrote' = [wrote EXCEPT ![t] = @ \cup {nextRow}]
  /\ nextRow' = nextRow + 1
  /\ UNCHANGED <<max_connections, pool, in_use, closed, opened, held, pc, exc,
                 db, closedAll, snap, committedRows, abortedRows, blocked>>
  /\ UNCHANGED NotPool

\* conn.execute("CREATE TABLE ...") / conn.execute("DROP TABLE ...") inside the
\* block.  The connections run with isolation_level = "IMMEDIATE", sqlite3's
\* implicit transaction control: a transaction is begun before INSERT, UPDATE,
\* DELETE and REPLACE only.  A CREATE or DROP executed while the connection
\* has no open transaction takes effect at once; inside an open transaction it
\* is part of that transaction.
ExecuteDDL(t) ==
  /\ pc[t] = "in_block"
  /\ held[t] \notin closed
  /\ ~WriteLockHeldByOther(held[t])
  /\ nextRow <= MaxRows
  /\ IF work[held[t]] = {}
       THEN db' = db \cup {nextRow} /\ UNCHANGED work
       ELSE work' = [work EXCEPT ![held[t]] = @ \cup {nextRow}] /\ UNCHANGED db
  /\ wrote' = [wrote EXCEPT ![t] = @ \cup {nextRow}]
  /\ nextRow' = nextRow + 1
  /\ UNCHANGED <<max_connections, pool, in_use, closed, opened, held, pc, exc,
                 closedAll, snap, committedRows, abortedRows, blocked>>
  /\ UNCHANGED NotPool

\* the block raises an Exception (a failing statement, "database is locked"
\* after the busy timeout, a closed connection, or code of the caller)
BlockRaise(t) ==
  /\ pc[t] = "in_block"
  /\ pc' = [pc EXCEPT ![t] = "rollback"]
  /\ exc' = [exc EXCEPT ![t] = TRUE]
  /\ UNCHANGED <<max_connections, pool, in_use, closed, opened, held, work, db,
                 nextRow, closedAll, wrote, snap, committedRows, abortedRows, blocked>>
  /\ UNCHANGED NotPool

\* the block exits normally: conn.commit(). On a closed connection commit
\* raises (sqlite3.ProgrammingError) and the except clause takes over.
Commit(t) ==
  /\ pc[t] = "in_block"
  /\ IF held[t] \in closed
       THEN /\ pc' = [pc EXCEPT ![t] = "rollback"]
            /\ exc' = [exc EXCEPT ![t] = TRUE]
            /\ UNCHANGED <<work, db, committedRows>>
       ELSE /\ pc' = [pc EXCEPT ![t] = "release"]
            /\ db' = db \cup work[held[t]]
            /\ work' = [work EXCEPT ![held[t]] = {}]
            /\ committedRows' = committedRows \cup wrote[t]
            /\ UNCHANGED exc
  /\ UNCHANGED <<max_connections, pool, in_use, closed, opened, held, nextRow,
                 closedAll, wrote, snap, abortedRows, blocked>>
  /\ UNCHANGED NotPool

\* except Exception: conn.rollback(); raise.  On a closed connection
\* rollback raises too; an exception leaves transaction() either way.
Rollback(t) ==
  /\ pc[t] = "rollback"
  /\ work' = [work EXCEPT ![held[t]] = {}]
  /\ abortedRows' = abortedRows \cup wrote[t]
  /\ pc' = [pc EXCEPT ![t] = "pool_except"]
  /\ UNCHANGED <<max_connections, pool, in_use, closed, opened, held, exc, db,
                 nextRow, closedAll, wrote, snap, committedRows, blocked>>
  /\ UNCHANGED NotPool

\* get_connection's handler:
\*     try: connection.connection.close(); connection = self._create_connection()
\*     except Exception as close_error: log
\* how ::= "replaced"       close and _create_connection both succeed
\*                          (the old DatabaseConnection object is dropped, and
\*                          its flag with it)
\*       | "close_failed"   close() raises: the connection stays open and stays
\*                          in `connection`
\*       | "create_failed"  close() succeeds and _create_connection raises
\*                          (sqlite3.connect or a PRAGMA fails): the closed
\*                          connection stays in `connection`
CloseAndReplace(t, how) ==
  /\ pc[t] = "pool_except"
  /\ CASE how = "replaced" ->
            /\ opened < MaxOpened
            /\ closed' = closed \cup {held[t]}
            /\ work' = [work EXCEPT ![held[t]] = {}]
            /\ opened' = opened + 1
            /\ held' = [held EXCEPT ![t] = opened + 1]
            /\ in_use' = in_use \ {held[t]}
       [] how = "close_failed" ->
            /\ held[t] \notin closed
            /\ UNCHANGED <<closed, work, opened, held, in_use>>
       [] how = "create_failed" ->
            /\ closed' = closed \cup {held[t]}
            /\ work' = [work EXCEPT ![held[t]] = {}]
            /\ UNCHANGED <<opened, held, in_use>>
  /\ pc' = [pc EXCEPT ![t] = "release"]
  /\ UNCHANGED <<max_connections, pool, exc, db, nextRow, closedAll,
                 wrote, snap, committedRows, abortedRows, blocked>>
  /\ UNCHANGED NotPool

\* a release that puts the connection back only when no exception is pending
ReleaseUnlessError(t) ==
  /\ pc[t] = "release"
  /\ in_use' = in_use \ {held[t]}
  /\ pool' = IF exc[t] THEN pool ELSE Append(pool, held[t])
  /\ held' = [held EXCEPT ![t] = NoConn]
  /\ exc' = [exc EXCEPT ![t] = FALSE]
  /\ pc' = [pc EXCEPT ![t] = "idle"]
  /\ wrote' = [wrote EXCEPT ![t] = {}]
  /\ snap' = [snap EXCEPT ![t] = {}]
  /\ blocked' = [blocked EXCEPT ![t] = FALSE]
  /\ UNCHANGED <<max_connections, closed, opened, work, db, nextRow, closedAll,
                 committedRows, abortedRows>>
  /\ UNCHANGED NotPool

\* finally: connection.in_use = False; self.pool.put(connection)
\* and the pending exception, if any, reaches the caller
Release(t) ==
  /\ pc[t] = "release"
  /\ in_use' = in_use \ {held[t]}
  /\ pool' = Append(pool, held[t])
  /\ held' = [held EXCEPT ![t] = NoConn]
  /\ exc' = [exc EXCEPT ![t] = FALSE]
  /\ pc' = [pc EXCEPT ![t] = "idle"]
  /\ wrote' = [wrote EXCEPT ![t] = {}]
  /\ snap' = [snap EXCEPT ![t] = {}]
  /\ blocked' = [blocked EXCEPT ![t] = FALSE]
  /\ UNCHANGED <<max_connections, closed, opened, work, db, nextRow, closedAll,
                 committedRows, abortedRows>>
  /\ UNCHANGED NotPool

\* close_all: while not self.pool.empty(): get_nowait().connection.close()
\* main.py calls it once the server has returned: no caller is left in a
\* transaction, and none starts one afterwards
CloseAll ==
  /\ ~closedAll
  /\ \A t \in Threads : pc[t] = "idle"
  /\ closedAll' = TRUE
  /\ closed' = closed \cup SeqToSet(pool)
  /\ work' = [c \in ConnIds |-> IF c \in SeqToSet(pool) THEN {} ELSE work[c]]
  /\ pool' = <<>>
  /\ UNCHANGED <<max_connections, in_use, opened, held, pc, exc, db, nextRow,
                 wrote, snap, committedRows, abortedRows, blocked>>
  /\ UNCHANGED NotPool

ReplaceOutcomes == {"replaced", "close_failed", "create_failed"}

NextPool ==
  \/ \E t \in Threads : Request(t)
  \/ \E t \in Threads : Acquire(t)
  \/ \E t \in Threads : Execute(t)
  \/ \E t \in Threads : ExecuteDDL(t)
  \/ \E t \in Threads : BlockRaise(t)
  \/ \E t \in Threads : Commit(t)
  \/ \E t \in Threads : Rollback(t)
  \/ \E t \in Threads, how \in ReplaceOutcomes : CloseAndReplace(t, how)
  \/ \E t \in Threads : Release(t)
  \/ CloseAll

(***************************************************************************)
(* Database.__new__: the per-class singleton                               *)
(***************************************************************************)
\* constructions of one class
MaxConstructions == 2

\* None
NoInstance == 0
\* the class has no attribute _instance of its own: a lookup goes to its base
Unset == -1

Classes == {"Database", "EventManager", "FileManager"}
ManagerClasses == {"EventManager", "FileManager"}
DbPaths == {"event.db", "file.db", "other.db"}
CtorArgs == [db_path : DbPaths, max_connections : 1..MaxPoolSize]

\* class Database: _instance = None; the managers declare no _instance
InitSingleton ==
  /\ _instance = [c \in Classes |-> IF c = "Database" THEN NoInstance ELSE Unset]
  /\ instances = <<>>
  /\ connsOpened = 0
  /\ ret = [c \in Classes |-> NoInstance]
  /\ calls = [c \in Classes |-> <<>>]

\* cls._instance: attribute lookup along the MRO (cls, then Database)
Lookup(inst, cls) == IF inst[cls] # Unset THEN inst[cls] ELSE inst["Database"]

\* isinstance(obj, cls) for an object of class objcls
IsInstance(objcls, cls) == objcls = cls \/ cls = "Database"

\* a __new__ without the guard: every call builds an object and a pool
NewAlways(st, cls, a) ==
  [inst |-> [st.inst EXCEPT ![cls] = Len(st.objs) + 1],
   objs |-> Append(st.objs, [cls |-> cls, db_path |-> a.db_path,
                             max_connections |-> a.max_connections]),
   opened |-> st.opened + a.max_connections,
   obj |-> Len(st.objs) + 1]

\* Database.__new__(cls, db_path, max_connections) on the state
\* st = [inst, objs, opened]; the result adds obj, the object returned.
\*     if cls._instance is None:
\*         cls._instance = super().__new__(cls)
\*         cls._instance.pool = ConnectionPool(db_path, max_connections)
\*     return cls._instance
New(st, cls, a) ==
  IF Lookup(st.inst, cls) = NoInstance
    THEN [inst |-> [st.inst EXCEPT ![cls] = Len(st.objs) + 1],
          objs |-> Append(st.objs, [cls |-> cls, db_path |-> a.db_path,
                                    max_connections |-> a.max_connections]),
          opened |-> st.opened + a.max_connections,
          obj |-> Len(st.objs) + 1]
    ELSE [inst |-> st.inst, objs |-> st.objs, opened |-> st.opened,
          obj |-> Lookup(st.inst, cls)]

\* EventManager.__init__ / FileManager.__init__ on the object made by __new__:
\*     super().__new__(self.__class__, db_path, max_connections)
\* Database defines no __init__.
InitObject(st, selfcls, a) ==
  IF selfcls \in ManagerClasses THEN New(st, selfcls, a) ELSE st

\* cls(db_path, max_connections): type.__call__ runs cls.__new__ and, when the
\* result is an instance of cls, its __init__
Call(cls, a) ==
  LET st0 == [inst |-> _instance, objs |-> instances, opened |-> connsOpened]
      r1 == New(st0, cls, a)
      objcls == r1.objs[r1.obj].cls
      r2 == IF IsInstance(objcls, cls) THEN InitObject(r1, objcls, a) ELSE r1
  IN /\ _instance' = r2.inst
     /\ instances' = r2.objs
     /\ connsOpened' = r2.opened
     /\ ret' = [ret EXCEPT ![cls] = r1.obj]
     /\ calls' = [calls EXCEPT ![cls] = Append(@, a)]

\* var.EVENT_MANAGER = EventManager(path) / var.FILE_MANAGER = FileManager(path)
\* (main.py), or any other construction of a manager class
ConstructManager(cls, a) ==
  /\ cls \in ManagerClasses
  /\ Len(calls[cls]) < MaxConstructions
  /\ Call(cls, a)
  /\ UNCHANGED NotSingleton

\* Database(path): a direct construction of the base class. No code of the
\* repository does this; the class allows it.
ConstructDatabase(a) ==
  /\ Len(calls["Database"]) < MaxConstructions
  /\ Call("Database", a)
  /\ UNCHANGED NotSingleton

NextSingleton ==
  \/ \E cls \in ManagerClasses, a \in CtorArgs : ConstructManager(cls, a)

NextSingletonLib ==
  \/ \E cls \in ManagerClasses, a \in CtorArgs : ConstructManager(cls, a)
  \/ \E a \in CtorArgs : ConstructDatabase(a)

(***************************************************************************)
(* The HTTP routes GET /id, GET /event/{id} and POST /upload, and the      *)
(* upload controller.  A request handler runs without interruption up to   *)
(* its next await; the only awaits of an upload are the reads of the       *)
(* attachments' chunks, so each action below is one such stretch.          *)
(***************************************************************************)

\* ---- bounds ----
MaxUlids == 2        \* ids GET /id and upload get from generate_ulid in a run
MaxCacheSize == 2    \* the larger of the two configured maxsizes of a cache

\* ---- values of the source ----
ChunkSize == 10240
OK == 200
BAD_REQUEST == 400
NOT_FOUND == 404
INTERNAL_SERVER_ERROR == 500
NoId == 0

Ulids == 1..MaxUlids
\* the upload request of a run that passes the checks at the head of upload
Uploads == {"u1"}

\* the attachments a client sends: files of no bytes, of half a chunk and of a
\* chunk and a half
EmptyFile == [filename |-> "empty.txt", size |-> 0]
SmallFile == [filename |-> "a.txt", size |-> ChunkSize \div 2]
LargeFile == [filename |-> "b.md", size |-> ChunkSize + ChunkSize \div 2]

Attachments == { <<SmallFile, LargeFile>>, <<LargeFile, EmptyFile>> }

\* collection names a client sends, as their characters
DefaultCollection == <<"d", "e", "f", "a", "u", "l", "t">>
CollectionNames == { <<"a", "b", "c">>, DefaultCollection, <<"a", "b">> }

Letters == {"a", "b", "c", "d", "e", "f", "l", "t", "u"}
Digits == {"1"}
AlphaNumeric == Letters \cup Digits

\* validate.collection_name_rule: the message of the ValueError it raises, or
\* "ok".  None of the names above has a period or is an IPv4 address.
collection_name_rule(name) ==
  IF Len(name) < 3 \/ Len(name) > 63
    THEN "collection name must contain 3-63 characters"
  ELSE IF name[1] \notin AlphaNumeric \/ name[Len(name)] \notin AlphaNumeric
    THEN "collection name must start and end with an alphanumeric character"
  ELSE IF \E i \in 1..Len(name) : name[i] \notin AlphaNumeric \cup {"_", "-"}
    THEN "collection name contains an invalid character"
  ELSE "ok"

\* whether CREATE TABLE IF NOT EXISTS {name} is a statement sqlite accepts:
\* the name is interpolated unquoted, so it has to be an identifier that is
\* not a keyword
SqlKeywords == { DefaultCollection }
SqlIdentifierOk(name) ==
  /\ name[1] \in Letters \cup {"_"}
  /\ \A i \in 1..Len(name) : name[i] \in AlphaNumeric \cup {"_"}
  /\ name \notin SqlKeywords

\* ---- cachetools.TTLCache ----
RECURSIVE Without(_, _)
Without(s, x) ==
  IF s = <<>> THEN <<>>
  ELSE IF Head(s) = x THEN Without(Tail(s), x)
  ELSE <<Head(s)>> \o Without(Tail(s), x)

Restrict(f, keys) == [k \in keys |-> f[k]]

\* cache[key] = value on a cache [data, age, lru] of the given maxsize: a new
\* key evicts the least recently used one of a full cache; the key becomes the
\* youngest and the most recently used
CacheSet(c, maxsize, key, value) ==
  LET full == key \notin DOMAIN c.data /\ Len(c.lru) >= maxsize
      victim == Head(c.lru)
      keep == IF full THEN DOMAIN c.data \ {victim} ELSE DOMAIN c.data
      age0 == IF full THEN Without(c.age, victim) ELSE c.age
      lru0 == IF full THEN Without(c.lru, victim) ELSE c.lru
  IN [ data |-> [k \in keep \cup {key} |-> IF k = key THEN value ELSE c.data[k]],
       age |-> Append(Without(age0, key), key),
       lru |-> Append(Without(lru0, key), key) ]

\* cache[key] of a key that is present: the key becomes the most recently used
CacheTouch(c, key) == [c EXCEPT !.lru = Append(Without(c.lru, key), key)]

\* the entries whose time to live has elapsed leave: the oldest one
CacheExpire(c) ==
  LET victim == Head(c.age)
  IN [ data |-> Restrict(c.data, DOMAIN c.data \ {victim}),
       age |-> Tail(c.age),
       lru |-> Without(c.lru, victim) ]

TheCache == [data |-> CACHE, age |-> cacheAge, lru |-> cacheLru]

InUnused(id) == \E i \in 1..Len(UNUSED_ID_CACHE) : UNUSED_ID_CACHE[i] = id

\* ---- events ----
EventDict(status, progress, included) ==
  [status |-> status, progress |-> progress, included |-> included]

FreeSlot ==
  [ pc |-> "free", event_id |-> NoId, coll |-> <<>>, files |-> <<>>,
    idx |-> 0, left |-> 0, current_size |-> 0, total_size |-> 0,
    progress |-> 0, included |-> <<>>, error |-> "none" ]

NoAnswer ==
  [ outcome |-> "none", code |-> 0, msg |-> "", supplied |-> FALSE,
    unissued |-> FALSE, reused |-> FALSE ]

\* ---- responses ----
\* data is <<>> for None and <<v>> for the value v; event_id and
\* collection_name are the path parameter or payload field of the request
NoResponse ==
  [ route |-> "none", envelope |-> FALSE, status_code |-> 0, err_code |-> 0,
    err_msg |-> "", data |-> <<>>, event_id |-> NoId, collection_name |-> <<>> ]

\* JSONResponse(status_code=..., content=Response(err_code, err_msg, data).to_dict())
JSONResponse(route, event_id, collection_name, status_code, err_code, err_msg, data) ==
  [ route |-> route, envelope |-> TRUE, status_code |-> status_code,
    err_code |-> err_code, err_msg |-> err_msg, data |-> data,
    event_id |-> event_id, collection_name |-> collection_name ]

\* an exception leaves the handler: the framework answers 500 with no envelope
Unhandled(route, event_id, collection_name, error) ==
  [ route |-> route, envelope |-> FALSE, status_code |-> INTERNAL_SERVER_ERROR,
    err_code |-> 0, err_msg |-> error, data |-> <<>>,
    event_id |-> event_id, collection_name |-> collection_name ]

\* the server after main has built the two caches with the configured maxsizes
InitHttpWith(unused_id_maxsize, general_maxsize) ==
  /\ UNUSED_ID_CACHE = <<>>
  /\ unusedMaxsize = unused_id_maxsize
  /\ CACHE = <<>>
  /\ cacheAge = <<>>
  /\ cacheLru = <<>>
  /\ cacheMaxsize = general_maxsize
  /\ nextUlid = 1
  /\ eventTables = {}
  /\ eventRows = <<>>
  /\ fileTables = <<>>
  /\ up = [r \in Uploads |-> FreeSlot]
  /\ answer = NoAnswer
  /\ response = NoResponse
  /\ issued = {}
  /\ consumed = {}
  /\ progress_log = [r \in Uploads |-> <<>>]

InitHttp ==
  \E um \in {1, MaxCacheSize}, gm \in {1, MaxCacheSize} : InitHttpWith(um, gm)

\* RAGSystem.__init__ and init_vector_store: every collection of the persistent
\* client is loaded into vector_stores
InitRagWith(persisted) ==
  /\ chroma = persisted
  /\ vector_stores = persisted
  /\ forgotten = {}

\* the head of a handler and the handing over of its answer are one stretch
\* without an await: no handler starts or resumes in between
Idle == answer = NoAnswer /\ response.route = "none" /\ mainPc = "serving"

\* ---- GET /id ----
GetTraceId ==
  /\ Idle
  /\ nextUlid <= MaxUlids
  /\ UNUSED_ID_CACHE' =
       Append(IF Len(UNUSED_ID_CACHE) >= unusedMaxsize
                THEN Tail(UNUSED_ID_CACHE) ELSE UNUSED_ID_CACHE,
              nextUlid)
  /\ issued' = issued \cup {nextUlid}
  /\ nextUlid' = nextUlid + 1
  /\ answer' = NoAnswer
  /\ response' = JSONResponse("id", nextUlid, <<>>, OK, 0, "Success", <<nextUlid>>)
  /\ UNCHANGED <<unusedMaxsize, CACHE, cacheAge, cacheLru, cacheMaxsize,
                 eventTables, eventRows, fileTables, up, consumed,
                 progress_log>>
  /\ UNCHANGED ragVars
  /\ UNCHANGED NotHttp

\* ---- the passing of time ----
ExpireUnusedId ==
  /\ Idle
  /\ UNUSED_ID_CACHE # <<>>
  /\ UNUSED_ID_CACHE' = Tail(UNUSED_ID_CACHE)
  /\ answer' = NoAnswer
  /\ response' = NoResponse
  /\ UNCHANGED <<unusedMaxsize, CACHE, cacheAge, cacheLru, cacheMaxsize,
                 nextUlid, eventTables, eventRows, fileTables, up,
                 issued, consumed, progress_log>>
  /\ UNCHANGED ragVars
  /\ UNCHANGED NotHttp

ExpireCache ==
  /\ Idle
  /\ cacheAge # <<>>
  /\ LET c == CacheExpire(TheCache)
     IN /\ CACHE' = c.data
        /\ cacheAge' = c.age
        /\ cacheLru' = c.lru
  /\ answer' = NoAnswer
  /\ response' = NoResponse
  /\ UNCHANGED <<UNUSED_ID_CACHE, unusedMaxsize, cacheMaxsize, nextUlid,
                 eventTables, eventRows, fileTables, up, issued,
                 consumed, progress_log>>
  /\ UNCHANGED ragVars
  /\ UNCHANGED NotHttp

\* ---- GET /event/{event_id} ----
GetEvent(event_id) ==
  /\ Idle
  /\ LET cached == event_id \in DOMAIN CACHE
         \* EventManager.get_event reads the table "upload" unguarded
         notable == ~cached /\ "upload" \notin eventTables
         found == ~cached /\ ~notable /\ event_id \in DOMAIN eventRows
         c == IF cached THEN CacheTouch(TheCache, event_id)
              ELSE IF found
                THEN CacheSet(TheCache, cacheMaxsize, event_id, eventRows[event_id])
              ELSE TheCache
     IN /\ CACHE' = c.data
        /\ cacheAge' = c.age
        /\ cacheLru' = c.lru
        /\ response' =
             IF cached
               THEN JSONResponse("event", event_id, <<>>, OK, 0, "Found event",
                                 <<CACHE[event_id]>>)
             ELSE IF notable
               THEN Unhandled("event", event_id, <<>>, "no such table: upload")
             ELSE IF found
               THEN JSONResponse("event", event_id, <<>>, OK, 0, "Found event",
                                 <<eventRows[event_id]>>)
             ELSE JSONResponse("event", event_id, <<>>, NOT_FOUND, NOT_FOUND,
                               "Not found", <<>>)
  /\ answer' = NoAnswer
  /\ UNCHANGED <<UNUSED_ID_CACHE, unusedMaxsize, cacheMaxsize, nextUlid,
                 eventTables, eventRows, fileTables, up, issued,
                 consumed, progress_log>>
  /\ UNCHANGED ragVars
  /\ UNCHANGED NotHttp

\* ---- POST /upload ----
\* the checks at the head of upload: the message of the 400 answer, or "ok"
UploadCheck(trace_id, coll, files) ==
  IF trace_id # NoId /\ ~InUnused(trace_id)
    THEN "Invalid or expired trace_id"
  ELSE IF collection_name_rule(coll) # "ok"
    THEN collection_name_rule(coll)
  ELSE IF \E i \in 1..Len(files) : files[i].size = 0
    THEN "No file uploaded"
  ELSE "ok"

\* what the head of upload answers to a request, with whether the request
\* supplied a trace id, whether GET /id never returned that id and whether an
\* accepted upload has supplied it before
Answer(trace_id, outcome, code, msg) ==
  [ outcome |-> outcome, code |-> code, msg |-> msg,
    supplied |-> trace_id # NoId,
    unissued |-> trace_id # NoId /\ trace_id \notin issued,
    reused |-> trace_id \in consumed ]

\* a rejection that has already taken the supplied id out of the cache
UploadRejectConsumes(trace_id, coll, files) ==
  /\ Idle
  /\ UploadCheck(trace_id, coll, files) # "ok"
  /\ answer' = Answer(trace_id, "rejected", BAD_REQUEST,
                    UploadCheck(trace_id, coll, files))
  /\ response' = JSONResponse("upload", trace_id, coll, BAD_REQUEST, BAD_REQUEST,
                              UploadCheck(trace_id, coll, files), <<>>)
  /\ UNUSED_ID_CACHE' = Without(UNUSED_ID_CACHE, trace_id)
  /\ UNCHANGED <<unusedMaxsize, CACHE, cacheAge, cacheLru,
                 cacheMaxsize, nextUlid, eventTables, eventRows, fileTables,
                 up, issued, consumed, progress_log>>
  /\ UNCHANGED ragVars
  /\ UNCHANGED NotHttp

UploadReject(trace_id, coll, files) ==
  /\ Idle
  /\ UploadCheck(trace_id, coll, files) # "ok"
  /\ answer' = Answer(trace_id, "rejected", BAD_REQUEST,
                    UploadCheck(trace_id, coll, files))
  /\ response' = JSONResponse("upload", trace_id, coll, BAD_REQUEST, BAD_REQUEST,
                              UploadCheck(trace_id, coll, files), <<>>)
  /\ UNCHANGED <<UNUSED_ID_CACHE, unusedMaxsize, CACHE, cacheAge, cacheLru,
                 cacheMaxsize, nextUlid, eventTables, eventRows, fileTables,
                 up, issued, consumed, progress_log>>
  /\ UNCHANGED ragVars
  /\ UNCHANGED NotHttp

RECURSIVE DropThrough(_, _)
DropThrough(s, x) ==
  IF s = <<>> THEN <<>>
  ELSE IF Head(s) = x THEN Tail(s)
  ELSE DropThrough(Tail(s), x)

\* the supplied id passes the check of line 111 and its time to live elapses
\* before the pop of line 144: the pop raises KeyError
UploadExpiredAtPop(trace_id, coll, files) ==
  /\ Idle
  /\ trace_id # NoId
  /\ UploadCheck(trace_id, coll, files) = "ok"
  /\ UNUSED_ID_CACHE' = DropThrough(UNUSED_ID_CACHE, trace_id)
  /\ answer' = Answer(trace_id, "error", INTERNAL_SERVER_ERROR, "KeyError")
  /\ response' = Unhandled("upload", trace_id, coll, "KeyError")
  /\ UNCHANGED <<unusedMaxsize, CACHE, cacheAge, cacheLru, cacheMaxsize,
                 nextUlid, eventTables, eventRows, fileTables, up, issued,
                 consumed, progress_log>>
  /\ UNCHANGED ragVars
  /\ UNCHANGED NotHttp

\* an accepted upload that leaves the supplied id in the cache
KeepTraceId(cache, trace_id) == cache

\* var.UNUSED_ID_CACHE.pop(trace_id)
PopTraceId(cache, trace_id) == Without(cache, trace_id)

Put(f, k, v) == [x \in DOMAIN f \cup {k} |-> IF x = k THEN v ELSE f[x]]

\* the handler of an upload after an exception, and after v1_upload has
\* returned: its locals are gone
Failed(u, error) ==
  [FreeSlot EXCEPT !.pc = "failed", !.event_id = u.event_id, !.error = error]

Done(u) == [FreeSlot EXCEPT !.pc = "done", !.event_id = u.event_id]

\* the request has been answered
Gone == [FreeSlot EXCEPT !.pc = "gone"]

\* sum(file.size for file in files)
RECURSIVE TotalSize(_)
TotalSize(files) ==
  IF files = <<>> THEN 0 ELSE Head(files).size + TotalSize(Tail(files))

\* upload from the pop of the trace id to the first read of a chunk
UploadAccept(r, trace_id, coll, files) ==
  /\ Idle
  /\ up[r].pc = "free"
  /\ UploadCheck(trace_id, coll, files) = "ok"
  /\ trace_id = NoId => nextUlid <= MaxUlids
  /\ LET event_id == IF trace_id # NoId THEN trace_id ELSE nextUlid
         c == CacheSet(TheCache, cacheMaxsize, event_id, EventDict("pending", 0, <<>>))
         u0 == [FreeSlot EXCEPT !.event_id = event_id, !.coll = coll, !.files = files]
         added == event_id \notin DOMAIN eventRows
         created == added /\ SqlIdentifierOk(coll)
     IN /\ UNUSED_ID_CACHE' = IF trace_id # NoId
                                THEN PopTraceId(UNUSED_ID_CACHE, trace_id)
                                ELSE UNUSED_ID_CACHE
        /\ consumed' = IF trace_id # NoId THEN consumed \cup {trace_id} ELSE consumed
        /\ CACHE' = c.data
        /\ cacheAge' = c.age
        /\ cacheLru' = c.lru
        /\ eventTables' = eventTables \cup {"upload"}
        /\ eventRows' = IF added
                          THEN Put(eventRows, event_id, EventDict("pending", 0, <<>>))
                          ELSE eventRows
        /\ fileTables' = IF created /\ coll \notin DOMAIN fileTables
                           THEN Put(fileTables, coll, {})
                           ELSE fileTables
        /\ nextUlid' = IF trace_id # NoId THEN nextUlid ELSE nextUlid + 1
        /\ up' = [up EXCEPT ![r] =
                    IF created
                      THEN [u0 EXCEPT !.pc = "reading", !.idx = 1,
                                      !.left = files[1].size,
                                      !.total_size = TotalSize(files)]
                      ELSE Failed(u0, "sql")]
        /\ answer' = Answer(trace_id, "accepted", 0, "")
        /\ response' = NoResponse
        /\ progress_log' = [progress_log EXCEPT ![r] = <<>>]
  /\ UNCHANGED <<unusedMaxsize, cacheMaxsize, issued>>
  /\ UNCHANGED ragVars
  /\ UNCHANGED NotHttp

\* ---- upload_controller ----
\* the id generate_ulid gives the idx-th file of an upload: fresh, and named
\* here by the upload's event and the file's position
FileId(event_id, idx) == <<event_id, idx>>

\* int((current_size / total_size) * 100)
Progress(current_size, total_size) == (current_size * 100) \div total_size

Min(a, b) == IF a < b THEN a ELSE b

\* _update_event on st = [cache, rows, log, ok]: var.CACHE[event_id] raises
\* KeyError when the entry has left the cache, and then nothing is written;
\* ok records that no update has raised
UpdateEvent(st, event_id, status, progress, included) ==
  IF ~st.ok THEN st
  ELSE IF event_id \notin DOMAIN st.cache.data THEN [st EXCEPT !.ok = FALSE]
  ELSE LET touched == CacheTouch(st.cache, event_id)
           ev == EventDict(status, progress, included)
       IN [ cache |-> [touched EXCEPT !.data[event_id] = ev],
            rows |-> IF event_id \in DOMAIN st.rows
                       THEN [st.rows EXCEPT ![event_id] = ev] ELSE st.rows,
            log |-> Append(st.log, progress),
            ok |-> TRUE ]

Before(r) == [cache |-> TheCache, rows |-> eventRows, log |-> progress_log[r], ok |-> TRUE]

Store(r, st) ==
  /\ CACHE' = st.cache.data
  /\ cacheAge' = st.cache.age
  /\ cacheLru' = st.cache.lru
  /\ eventRows' = st.rows
  /\ progress_log' = [progress_log EXCEPT ![r] = st.log]

\* a list that takes the new entry in front
IncludeFirst(included, entry) == <<entry>> \o included

\* included.append({"file_id": file_id, "file_name": file.filename})
Include(included, entry) == Append(included, entry)

\* one turn of the loop of line 32 that reads a chunk; throttled is whether
\* less than two seconds have passed since the last update of the loop
ReadChunk(r, throttled) ==
  /\ Idle
  /\ up[r].pc = "reading"
  /\ up[r].left > 0
  /\ LET u == up[r]
         n == Min(u.left, ChunkSize)
         current_size == u.current_size + n
         progress == Progress(current_size, u.total_size)
         st == IF throttled THEN Before(r)
               ELSE UpdateEvent(Before(r), u.event_id, "running", progress, u.included)
     IN /\ Store(r, st)
        /\ up' = [up EXCEPT ![r] =
                    IF st.ok
                      THEN [u EXCEPT !.left = u.left - n,
                                     !.current_size = current_size,
                                     !.progress = progress]
                      ELSE Failed(u, "KeyError")]
  /\ answer' = NoAnswer
  /\ response' = NoResponse
  /\ UNCHANGED <<UNUSED_ID_CACHE, unusedMaxsize, cacheMaxsize, nextUlid,
                 eventTables, fileTables, issued, consumed>>
  /\ UNCHANGED ragVars
  /\ UNCHANGED NotHttp

\* a controller that records no file
_skip_file_record(tables, collection_name, file_data) == tables

\* _update_file_record: FileManager.add_file inserts the row of the file into
\* the table of the collection
_update_file_record(tables, collection_name, file_data) ==
  [tables EXCEPT ![collection_name] = @ \cup {file_data}]

\* the read that returns no chunk: the file is recorded and the event updated;
\* after the last file the event becomes a success, otherwise the next file
\* is opened
ReadEof(r) ==
  /\ Idle
  /\ up[r].pc = "reading"
  /\ up[r].left = 0
  /\ LET u == up[r]
         file == u.files[u.idx]
         file_id == FileId(u.event_id, u.idx)
         row == [id |-> file_id, name |-> file.filename, size |-> file.size,
                 upload_id |-> u.event_id]
         included == Include(u.included,
                             [file_id |-> file_id, file_name |-> file.filename])
         islast == u.idx = Len(u.files)
         st1 == UpdateEvent(Before(r), u.event_id, "running", u.progress, included)
         st == IF islast
                 THEN UpdateEvent(st1, u.event_id, "success", 100, included)
                 ELSE st1
     IN /\ fileTables' = _update_file_record(fileTables, u.coll, row)
        /\ Store(r, st)
        /\ up' = [up EXCEPT ![r] =
                    IF ~st.ok THEN Failed(u, "KeyError")
                    ELSE IF islast THEN Done(u)
                    ELSE [u EXCEPT !.included = included,
                                   !.idx = u.idx + 1,
                                   !.left = u.files[u.idx + 1].size]]
  /\ answer' = NoAnswer
  /\ response' = NoResponse
  /\ UNCHANGED <<UNUSED_ID_CACHE, unusedMaxsize, cacheMaxsize, nextUlid, eventTables, issued, consumed>>
  /\ UNCHANGED ragVars
  /\ UNCHANGED NotHttp

\* reading the attachment or writing the file raises
UploadError(r) ==
  /\ Idle
  /\ up[r].pc = "reading"
  /\ up' = [up EXCEPT ![r] = Failed(up[r], "io")]
  /\ answer' = NoAnswer
  /\ response' = NoResponse
  /\ UNCHANGED <<UNUSED_ID_CACHE, unusedMaxsize, CACHE, cacheAge, cacheLru,
                 cacheMaxsize, nextUlid, eventTables, eventRows, fileTables, issued, consumed, progress_log>>
  /\ UNCHANGED ragVars
  /\ UNCHANGED NotHttp

\* the handler answers and is gone: 200 with the event as upload built it
\* after v1_upload has returned, 500 after an exception
Return(r) ==
  /\ Idle
  /\ up[r].pc \in {"done", "failed"}
  /\ up' = [up EXCEPT ![r] = Gone]
  /\ progress_log' = [progress_log EXCEPT ![r] = <<>>]
  /\ answer' = NoAnswer
  /\ response' =
       IF up[r].pc = "done"
         THEN JSONResponse("upload", up[r].event_id, <<>>, OK, 0,
                           "The file(s) are uploaded successfully",
                           <<EventDict("pending", 0, <<>>)>>)
         ELSE Unhandled("upload", up[r].event_id, <<>>, up[r].error)
  /\ UNCHANGED <<UNUSED_ID_CACHE, unusedMaxsize, CACHE, cacheAge, cacheLru,
                 cacheMaxsize, nextUlid, eventTables, eventRows, fileTables, issued, consumed>>
  /\ UNCHANGED ragVars
  /\ UNCHANGED NotHttp

\* the trace ids a client supplies: none, the ids of the server, and one the
\* server never generates
ForgedId == MaxUlids + 1
TraceIds == Ulids \cup {NoId, ForgedId}

\* the answer has gone out; for an accepted upload the handler has gone on to
\* v1_upload
Deliver ==
  /\ mainPc = "serving"
  /\ answer # NoAnswer \/ response.route # "none"
  /\ answer' = NoAnswer
  /\ response' = NoResponse
  /\ UNCHANGED <<UNUSED_ID_CACHE, unusedMaxsize, CACHE, cacheAge, cacheLru,
                 cacheMaxsize, nextUlid, eventTables, eventRows, fileTables,
                 up, issued, consumed, progress_log>>
  /\ UNCHANGED ragVars
  /\ UNCHANGED NotHttp

(***************************************************************************)
(* The routes GET /file/{collection}, POST /chat, POST /learn and          *)
(* DELETE /forget, and the handler of request validation errors.  None of  *)
(* them awaits: each handler is one action.                                *)
(***************************************************************************)
\* FileManager.get_file_list: the statement is built with the name unquoted,
\* and only the error "no such table" is caught
get_file_list(collection_name, show_simple) ==
  IF ~SqlIdentifierOk(collection_name)
    THEN [raised |-> TRUE, found |-> FALSE, rows |-> {}, msg |-> "syntax error"]
  ELSE IF collection_name \notin DOMAIN fileTables
    THEN [raised |-> FALSE, found |-> FALSE, rows |-> {},
          msg |-> "Collection not found"]
  ELSE [raised |-> FALSE, found |-> TRUE,
        rows |-> IF show_simple
                   THEN {[file_id |-> row.id, file_name |-> row.name] :
                           row \in fileTables[collection_name]}
                   ELSE fileTables[collection_name],
        msg |-> "Found the collection"]

\* `not result` of a Python list or None
Falsy(fl) == ~fl.found \/ fl.rows = {}

\* the data of a response that carries the result of get_file_list
ListData(fl) == IF fl.found THEN <<fl.rows>> ELSE <<>>

\* ---- GET /file/{collection_name} ----
GetFileList(collection_name) ==
  /\ Idle
  /\ LET fl == get_file_list(collection_name, FALSE)
     IN response' =
          IF fl.raised
            THEN Unhandled("file", NoId, collection_name, fl.msg)
          ELSE IF Falsy(fl)
            THEN JSONResponse("file", NoId, collection_name, NOT_FOUND, NOT_FOUND,
                              fl.msg, ListData(fl))
          ELSE JSONResponse("file", NoId, collection_name, OK, 0, fl.msg,
                            ListData(fl))
  /\ answer' = NoAnswer
  /\ UNCHANGED <<UNUSED_ID_CACHE, unusedMaxsize, CACHE, cacheAge, cacheLru,
                 cacheMaxsize, nextUlid, eventTables, eventRows, fileTables,
                 up, issued, consumed, progress_log>>
  /\ UNCHANGED ragVars
  /\ UNCHANGED NotHttp

\* ---- POST /chat ----
\* answered: RAGSystem.query got its completion; otherwise query returns its
\* one-element tuple of line 308, which the route cannot unpack
Chat(collection_name, answered) ==
  /\ Idle
  /\ response' =
       IF collection_name \notin vector_stores
         THEN JSONResponse("chat", NoId, collection_name, NOT_FOUND, NOT_FOUND,
                           "I didn't learn anything about the collection", <<>>)
       ELSE IF answered
         THEN JSONResponse("chat", NoId, collection_name, OK, 0,
                           "Get response successfully", <<"content">>)
       ELSE Unhandled("chat", NoId, collection_name, "ValueError")
  /\ answer' = NoAnswer
  /\ UNCHANGED <<UNUSED_ID_CACHE, unusedMaxsize, CACHE, cacheAge, cacheLru,
                 cacheMaxsize, nextUlid, eventTables, eventRows, fileTables,
                 up, issued, consumed, progress_log>>
  /\ UNCHANGED ragVars
  /\ UNCHANGED NotHttp

\* ---- POST /learn ----
\* a Python value with its type
PyList(items) == [kind |-> "list", value |-> items]

\* a Python str that holds JSON text, as the tokens of the text
PyStr(tokens) == [kind |-> "str", value |-> tokens]

\* the values a JSON text stands for: numbers, strings, lists, and dicts with
\* their keys in insertion order
JsonInt(n) == [kind |-> "int", n |-> n]
JsonStr(s) == [kind |-> "str", s |-> s]
JsonList(items) == [kind |-> "list", items |-> items]
JsonDict(keys, vals) == [kind |-> "dict", keys |-> keys, vals |-> vals]

\* a token of JSON text: punctuation, a string between quotes, or the digits
\* of a number
Tok(t, s) == [t |-> t, s |-> s]

\* the numbers a text of the model holds
Numbers == 0..100
ParseInt(digits) == CHOOSE n \in Numbers : ToString(n) = digits

\* json.dumps(v), without the blanks
RECURSIVE dumps(_), dumps_items(_), dumps_members(_, _)
dumps(v) ==
  CASE v.kind = "int" -> <<Tok("num", ToString(v.n))>>
    [] v.kind = "str" -> <<Tok("str", v.s)>>
    [] v.kind = "list" -> <<Tok("[", "")>> \o dumps_items(v.items) \o <<Tok("]", "")>>
    [] v.kind = "dict" ->
         <<Tok("{", "")>> \o dumps_members(v.keys, v.vals) \o <<Tok("}", "")>>

dumps_items(items) ==
  IF items = <<>> THEN <<>>
  ELSE IF Len(items) = 1 THEN dumps(Head(items))
  ELSE dumps(Head(items)) \o <<Tok(",", "")>> \o dumps_items(Tail(items))

dumps_members(keys, vals) ==
  IF keys = <<>> THEN <<>>
  ELSE LET member == <<Tok("str", Head(keys)), Tok(":", "")>> \o dumps(Head(vals))
       IN IF Len(keys) = 1 THEN member
          ELSE member \o <<Tok(",", "")>> \o dumps_members(Tail(keys), Tail(vals))

\* json.loads of a text json.dumps has written: the value at the head of the
\* tokens and the tokens after it
RECURSIVE parse_value(_), parse_items(_, _), parse_members(_, _, _)
parse_value(toks) ==
  LET h == Head(toks)
  IN CASE h.t = "num" -> [value |-> JsonInt(ParseInt(h.s)), rest |-> Tail(toks)]
       [] h.t = "str" -> [value |-> JsonStr(h.s), rest |-> Tail(toks)]
       [] h.t = "[" -> parse_items(Tail(toks), <<>>)
       [] h.t = "{" -> parse_members(Tail(toks), <<>>, <<>>)

parse_items(toks, acc) ==
  IF Head(toks).t = "]" THEN [value |-> JsonList(acc), rest |-> Tail(toks)]
  ELSE LET start == IF Head(toks).t = "," THEN Tail(toks) ELSE toks
           v == parse_value(start)
       IN parse_items(v.rest, Append(acc, v.value))

parse_members(toks, keys, vals) ==
  IF Head(toks).t = "}" THEN [value |-> JsonDict(keys, vals), rest |-> Tail(toks)]
  ELSE LET start == IF Head(toks).t = "," THEN Tail(toks) ELSE toks
           v == parse_value(Tail(Tail(start)))
       IN parse_members(v.rest, Append(keys, Head(start).s), Append(vals, v.value))

loads(text) == parse_value(text).value

\* an encoder that writes the name of the value's type
marshall_type_name(data) == PyStr(<<Tok("str", data.kind)>>)

\* json.dumps(data)
marshall_json(data) == PyStr(dumps(data))

\* json.loads(data): text only; any other argument raises TypeError
unmarshall_json(data) ==
  IF data.kind = "str"
    THEN [raised |-> FALSE, value |-> loads(data.value)]
    ELSE [raised |-> TRUE, value |-> data.value]

\* a learn that takes every collection for new
NeverLearned(collection_name, re) == FALSE

\* not payload.re and payload.collection_name in var.RAG_SYSTEM.vector_stores
AlreadyLearned(collection_name, re) == ~re /\ collection_name \in vector_stores

\* created: create_collection found documents under ./upload/{collection_name}
\* and Chroma.from_documents built the collection
Learn(collection_name, re, created) ==
  /\ Idle
  /\ LET fl == get_file_list(collection_name, TRUE)
         included == unmarshall_json(PyList(fl.rows))
         outcome ==
           IF AlreadyLearned(collection_name, re) THEN "exists"
           ELSE IF fl.raised THEN "sql"
           ELSE IF Falsy(fl) THEN "nofiles"
           ELSE IF included.raised THEN "TypeError"
           ELSE IF ~created THEN "notcreated"
           ELSE "created"
     IN /\ response' =
             CASE outcome = "exists" ->
                    JSONResponse("learn", NoId, collection_name, BAD_REQUEST,
                                 BAD_REQUEST, "Collection already exists", <<>>)
               [] outcome = "sql" ->
                    Unhandled("learn", NoId, collection_name, fl.msg)
               [] outcome = "nofiles" ->
                    JSONResponse("learn", NoId, collection_name, NOT_FOUND,
                                 NOT_FOUND, fl.msg, ListData(fl))
               [] outcome = "TypeError" ->
                    Unhandled("learn", NoId, collection_name, "TypeError")
               [] outcome = "notcreated" ->
                    JSONResponse("learn", NoId, collection_name, BAD_REQUEST,
                                 BAD_REQUEST, "Error creating collection", <<>>)
               [] outcome = "created" ->
                    JSONResponse("learn", NoId, collection_name, OK, 0,
                                 "Collection created successfully",
                                 <<included.value>>)
        /\ vector_stores' = IF outcome = "created"
                              THEN vector_stores \cup {collection_name}
                              ELSE vector_stores
        /\ chroma' = IF outcome = "created"
                       THEN chroma \cup {collection_name} ELSE chroma
  /\ answer' = NoAnswer
  /\ UNCHANGED <<UNUSED_ID_CACHE, unusedMaxsize, CACHE, cacheAge, cacheLru,
                 cacheMaxsize, nextUlid, eventTables, eventRows, fileTables,
                 up, issued, consumed, progress_log, forgotten>>
  /\ UNCHANGED NotHttp

\* ---- DELETE /forget ----
\* a deletion that takes the collection out of the registry only
unload_collection(rag, collection_name) ==
  [rag EXCEPT !.vector_stores = @ \ {collection_name}]

\* RAGSystem.delete_collection when the client's delete_collection succeeds
delete_collection(rag, collection_name) ==
  [ vector_stores |-> rag.vector_stores \ {collection_name},
    chroma |-> rag.chroma \ {collection_name} ]

\* a forget that also drops the collection's table of the file database
ForgetAndDrop(collection_name, deleted) ==
  /\ Idle
  /\ collection_name \in vector_stores
  /\ vector_stores' = vector_stores \ {collection_name}
  /\ chroma' = chroma \ {collection_name}
  /\ forgotten' = forgotten \cup {collection_name}
  /\ fileTables' = [c \in DOMAIN fileTables \ {collection_name} |-> fileTables[c]]
  /\ response' = JSONResponse("forget", NoId, collection_name, OK, 0,
                              "Collection has been forgotten", <<>>)
  /\ answer' = NoAnswer
  /\ UNCHANGED <<UNUSED_ID_CACHE, unusedMaxsize, CACHE, cacheAge, cacheLru,
                 cacheMaxsize, nextUlid, eventTables, eventRows,
                 up, issued, consumed, progress_log>>
  /\ UNCHANGED NotHttp

\* deleted: the client's delete_collection did not raise
Forget(collection_name, deleted) ==
  /\ Idle
  /\ LET loaded == collection_name \in vector_stores
         rag == [vector_stores |-> vector_stores, chroma |-> chroma]
         after == IF loaded /\ deleted
                    THEN delete_collection(rag, collection_name) ELSE rag
     IN /\ vector_stores' = after.vector_stores
        /\ chroma' = after.chroma
        /\ forgotten' = IF loaded /\ deleted
                          THEN forgotten \cup {collection_name} ELSE forgotten
        /\ response' =
             IF ~loaded
               THEN JSONResponse("forget", NoId, collection_name, NOT_FOUND,
                                 NOT_FOUND,
                                 "I didn't learned anything about the collection",
                                 <<>>)
             ELSE IF deleted
               THEN JSONResponse("forget", NoId, collection_name, OK, 0,
                                 "Collection has been forgotten", <<>>)
             ELSE JSONResponse("forget", NoId, collection_name,
                               INTERNAL_SERVER_ERROR, 0,
                               "Error deleting collection", <<>>)
  /\ answer' = NoAnswer
  /\ UNCHANGED <<UNUSED_ID_CACHE, unusedMaxsize, CACHE, cacheAge, cacheLru,
                 cacheMaxsize, nextUlid, eventTables, eventRows, fileTables,
                 up, issued, consumed, progress_log>>
  /\ UNCHANGED NotHttp

\* ---- validation_exception_handler ----
\* a request whose body fails the validation of its route's model
ValidationError ==
  /\ Idle
  /\ response' = JSONResponse("RequestValidationError", NoId, <<>>, BAD_REQUEST,
                              0, "Validation error", <<"errors">>)
  /\ answer' = NoAnswer
  /\ UNCHANGED <<UNUSED_ID_CACHE, unusedMaxsize, CACHE, cacheAge, cacheLru,
                 cacheMaxsize, nextUlid, eventTables, eventRows, fileTables,
                 up, issued, consumed, progress_log>>
  /\ UNCHANGED ragVars
  /\ UNCHANGED NotHttp

\* the collections a persistent Chroma directory holds when the server starts
Persisted == SUBSET {<<"a","b","c">>, DefaultCollection}

\* uploads without a trace id, and the routes of the files and of the RAG system
NextRag ==
  \/ \E r \in Uploads, coll \in CollectionNames, files \in Attachments :
       UploadAccept(r, NoId, coll, files)
  \/ \E r \in Uploads, throttled \in BOOLEAN : ReadChunk(r, throttled)
  \/ \E r \in Uploads : ReadEof(r)
  \/ \E r \in Uploads : UploadError(r)
  \/ \E r \in Uploads : Return(r)
  \/ \E coll \in CollectionNames : GetFileList(coll)
  \/ \E coll \in CollectionNames, answered \in BOOLEAN : Chat(coll, answered)
  \/ \E coll \in CollectionNames, re \in BOOLEAN, created \in BOOLEAN :
       Learn(coll, re, created)
  \/ \E coll \in CollectionNames, deleted \in BOOLEAN : Forget(coll, deleted)
  \/ ValidationError
  \/ Deliver

NextHttp ==
  \/ GetTraceId
  \/ ExpireUnusedId
  \/ ExpireCache
  \/ \E event_id \in Ulids : GetEvent(event_id)
  \/ \E trace_id \in TraceIds, coll \in CollectionNames, files \in Attachments :
       UploadReject(trace_id, coll, files)
  \/ \E trace_id \in TraceIds, coll \in CollectionNames, files \in Attachments :
       UploadExpiredAtPop(trace_id, coll, files)
  \/ \E r \in Uploads, trace_id \in TraceIds, coll \in CollectionNames,
        files \in Attachments :
       UploadAccept(r, trace_id, coll, files)
  \/ \E r \in Uploads, throttled \in BOOLEAN : ReadChunk(r, throttled)
  \/ \E r \in Uploads : ReadEof(r)
  \/ \E r \in Uploads : UploadError(r)
  \/ \E r \in Uploads : Return(r)
  \/ Deliver

(***************************************************************************)
(* config/config.py and the configuration classes of share/types.py       *)
(***************************************************************************)
\* os.cpu_count() of the host
LogicalCores == 4

\* ./config/config.toml as toml.load returns it: a table per section.  An
\* absent openai key and an empty one are the same to _validate_fields and
\* are both written "".  vector tells whether the document has a [db.vector]
\* table, the one main.py reads.
Document(api_key, base_url, workers, dir, general_maxsize, unused_id_maxsize, vector) ==
  [ general |-> [timezone |-> 8],
    openai |-> [api_key |-> api_key, base_url |-> base_url, db_dir |-> "./db"],
    server |-> [host |-> "0.0.0.0", port |-> 8080, workers |-> workers],
    upload |-> [dir |-> dir, allowed |-> <<"pdf", "txt">>, max_size |-> 20],
    middleware |-> [cors |-> [allow_origins |-> <<"*">>,
                              allow_credentials |-> TRUE,
                              allow_methods |-> <<"*">>,
                              allow_headers |-> <<"*">>,
                              expose_headers |-> <<>>,
                              max_age |-> 600]],
    db |-> IF vector
             THEN [event |-> [path |-> "event.db"], file |-> [path |-> "file.db"],
                   vector |-> [dir |-> "./db/vector"]]
             ELSE [event |-> [path |-> "event.db"], file |-> [path |-> "file.db"]],
    cache |-> [general |-> [maxsize |-> general_maxsize, ttl |-> 60],
               unused_id |-> [maxsize |-> unused_id_maxsize, ttl |-> 60]] ]

Documents ==
  { Document(k, u, w, d, gm, um, v) :
      k \in {"", "sk-1"}, u \in {"", "https://api"}, w \in {-1, 2},
      d \in {"./upload", "/srv/files"}, gm \in {1, MaxCacheSize},
      um \in {1, MaxCacheSize}, v \in BOOLEAN }

\* the fields of each dataclass: the annotated names of its body.  The three
\* names of UploadConfig carry no annotation and are no fields.
FieldsOf ==
  [ Config |-> {"general", "openai", "server", "upload", "middleware", "db", "cache"},
    GeneralConfig |-> {"timezone"},
    CacheConfig |-> {"general", "unused_id"},
    GeneralCacheConfig |-> {"maxsize", "ttl"},
    UnusedIDConfig |-> {"maxsize", "ttl"},
    DBConfig |-> {"event", "file"},
    DBConfigEvent |-> {"path"},
    DBConfigFile |-> {"path"},
    OpenAIConfig |-> {"api_key", "base_url", "db_dir"},
    ServerConfig |-> {"host", "port", "workers"},
    UploadConfig |-> {},
    MiddlewareConfig |-> {"cors"},
    CORSConfig |-> {"allow_origins", "allow_credentials", "allow_methods",
                    "allow_headers", "expose_headers", "max_age"} ]

\* the dataclass a field is annotated with, for the fields that hold one
ClassOfField ==
  [ Config |-> [general |-> "GeneralConfig", openai |-> "OpenAIConfig",
                server |-> "ServerConfig", upload |-> "UploadConfig",
                middleware |-> "MiddlewareConfig", db |-> "DBConfig",
                cache |-> "CacheConfig"],
    CacheConfig |-> [general |-> "GeneralCacheConfig", unused_id |-> "UnusedIDConfig"],
    DBConfig |-> [event |-> "DBConfigEvent", file |-> "DBConfigFile"],
    MiddlewareConfig |-> [cors |-> "CORSConfig"] ]

\* the class attributes an instance shows where it has no field of the name
ClassAttributes ==
  [ UploadConfig |-> [dir |-> "./upload", allowed |-> <<>>, max_size |-> 20] ]

AttributesOf(cls) ==
  IF cls \in DOMAIN ClassAttributes THEN ClassAttributes[cls] ELSE <<>>

IsDataclassField(cls, f) ==
  cls \in DOMAIN ClassOfField /\ f \in DOMAIN ClassOfField[cls]

\* dacite.from_dict(data_class=cls, data=data, config=Config(check_types=False)):
\* an object with the fields of cls, each taken from the key of its name
\* (a table builds the field's dataclass); keys that name no field are left out
RECURSIVE from_dict(_, _)
from_dict(cls, data) ==
  LET given == FieldsOf[cls] \cap DOMAIN data
      attrs == AttributesOf(cls)
  IN [ f \in given \cup DOMAIN attrs |->
         IF f \notin given THEN attrs[f]
         ELSE IF IsDataclassField(cls, f)
           THEN from_dict(ClassOfField[cls][f], data[f])
         ELSE data[f] ]

\* Config.parse
parse(json_data) == from_dict("Config", json_data)

\* the object has an attribute of the name
hasattr(obj, name) == name \in DOMAIN obj

\* _validate_fields: the KeyError it raises, or "ok"
_validate_fields(config) ==
  IF config.openai.api_key = "" THEN "The openai.api_key is required"
  ELSE IF config.openai.base_url = "" THEN "The openai.base_url is required"
  ELSE "ok"

_translate_config(config) ==
  IF config.server.workers = -1
    THEN [config EXCEPT !.server.workers = LogicalCores]
    ELSE config

\* _load_config on the document: the Config, or the exception
_load_config(doc) ==
  IF _validate_fields(doc) # "ok"
    THEN [raised |-> TRUE, value |-> <<>>,
          error |-> "The config.toml file is missing some required fields and/or values"]
    ELSE [raised |-> FALSE, value |-> <<_translate_config(parse(doc))>>,
          error |-> ""]

\* get_config on the module global g and the document on disk: what it
\* returns or raises, and the module global afterwards
get_config(g, doc) ==
  IF g # <<>> THEN [raised |-> FALSE, value |-> g, error |-> "", global |-> g]
  ELSE LET l == _load_config(doc)
       IN [raised |-> l.raised, value |-> l.value, error |-> l.error,
           global |-> l.value]

\* the names of share/var.py in the order main.py assigns them
HandleOrder ==
  << "CONFIG", "APP_LOG", "RAG_SYSTEM", "EVENT_MANAGER", "FILE_MANAGER",
     "CACHE", "UNUSED_ID_CACHE" >>

\* no call has been made
NoResult ==
  [ call |-> "none", raised |-> FALSE, error |-> "", value |-> <<>>, msg |-> "",
    committed |-> FALSE, rolled_back |-> FALSE, replaced |-> FALSE,
    event_type |-> "", event_id |-> NoId, collection_name |-> <<>>,
    used |-> <<>> ]

InitLib == result = NoResult

\* serve has not been left
NoEnding == [way |-> "none", critical |-> FALSE, exit_code |-> 0]

\* the process inside asyncio.run(serve()): every statement of main.py before
\* it has run on a document that asks for the two maxsizes of the caches
InitServing ==
  /\ document = Document("sk-1", "https://api", 2, "./upload", cacheMaxsize,
                         unusedMaxsize, TRUE)
  /\ _CONFIG = get_config(<<>>, document).global
  /\ handles = HandleOrder
  /\ mainPc = "serving"
  /\ released = <<>>
  /\ ending = NoEnding

\* the server: main builds both managers with the default of one connection
Init ==
  /\ InitPoolWith(DefaultMaxConnections) /\ InitSingleton /\ InitHttp /\ InitRagWith({})
  /\ InitLib /\ InitServing

\* a pool of any size, and the classes before any construction; the server's
\* caches are left at their largest configuration
InitDb ==
  /\ InitPool /\ InitSingleton /\ InitHttpWith(MaxCacheSize, MaxCacheSize) /\ InitRagWith({})
  /\ InitLib /\ InitServing

Spec == Init /\ [][NextHttp]_vars
SpecPool == InitDb /\ [][NextPool]_vars

\* the pool's own code runs on: a get on a queue that holds a connection
\* returns, and the except and finally clauses of get_connection and
\* transaction run to their end; how long a caller stays in its block is the
\* caller's affair
FairPool ==
  \A t \in Threads :
    /\ WF_vars(Acquire(t))
    /\ WF_vars(Rollback(t))
    /\ WF_vars(\E how \in ReplaceOutcomes : CloseAndReplace(t, how))
    /\ WF_vars(Release(t))

SpecPoolFair == InitDb /\ [][NextPool]_vars /\ FairPool
SpecSingleton == InitDb /\ [][NextSingleton]_vars
SpecSingletonLib == InitDb /\ [][NextSingletonLib]_vars

\* the server started on a Chroma directory that holds some collections
InitRag ==
  /\ InitPoolWith(DefaultMaxConnections)
  /\ InitSingleton
  /\ InitHttpWith(MaxCacheSize, MaxCacheSize)
  /\ \E persisted \in Persisted : InitRagWith(persisted)
  /\ InitLib /\ InitServing

SpecRag == InitRag /\ [][NextRag]_vars

(***************************************************************************)
(* Claims about the connection pool and transactions (under SpecPool)      *)
(***************************************************************************)
InTransaction == {t \in Threads : pc[t] \in {"in_block", "rollback", "pool_except", "release"}}

\* C3: with every connection checked out, a caller that has called
\* get_connection stays blocked: it neither fails nor obtains a connection
\* while the queue is empty, and when it proceeds it proceeds into its block
\* holding the connection at the head of the queue (one a holder put back).
C3_BlocksUntilReleased ==
  [][\A t \in Threads :
        pc[t] = "waiting" =>
          /\ (pool = <<>> => pc'[t] = "waiting" /\ held'[t] = NoConn)
          /\ (pc'[t] # "waiting" =>
                /\ pc'[t] = "in_block"
                /\ held'[t] = Head(pool)
                /\ pool' = Tail(pool))]_vars

\* a caller that called get_connection on an exhausted pool now runs its
\* block, while the pool was full to max_connections before
C3_Witness ==
  \E t \in Threads :
    /\ blocked[t]
    /\ pc[t] = "in_block"
    /\ held[t] # NoConn

\* C4: before close_all, every pooled connection is in the queue or held by
\* exactly one caller, queue length + checked-out connections equals
\* max_connections, and whoever has left get_connection (normally or by an
\* exception) holds nothing and has put back a connection whose in_use flag
\* is cleared.
C4_PoolAccounting ==
  ~closedAll =>
    /\ Len(pool) + Cardinality(CheckedOut) = max_connections
    /\ \A i, j \in 1..Len(pool) : i # j => pool[i] # pool[j]
    /\ \A t \in Threads : held[t] # NoConn => held[t] \notin SeqToSet(pool)
    /\ \A t, u \in Threads : t # u /\ held[t] # NoConn => held[t] # held[u]
    /\ \A c \in SeqToSet(pool) : c \notin in_use
    /\ \A t \in Threads : pc[t] \in {"idle", "waiting"} <=> held[t] = NoConn
    /\ \A t \in Threads : held[t] # NoConn /\ pc[t] # "release" => held[t] \in in_use

\* an exception exit has put a replacement connection back into the queue
C4_Witness ==
  /\ ~closedAll
  /\ \E c \in SeqToSet(pool) : c > max_connections
  /\ Len(pool) = max_connections

\* C5: after an exception in the block the connection put back is a fresh
\* one, the one that was checked out is closed, the exception goes on to the
\* caller, and no closed connection is ever in the queue.
C5_PoisonedNeverReturns ==
  /\ [](\A c \in SeqToSet(pool) : c \notin closed)
  /\ [][\A t \in Threads :
          pc[t] = "pool_except" /\ pc'[t] = "release" =>
            /\ held'[t] # held[t]
            /\ held[t] \in closed'
            /\ held'[t] \notin closed'
            /\ exc'[t]]_vars

\* C6: rows of blocks that exited normally are committed and stay visible;
\* rows of a block that raised never reach the database, the database is what
\* it was when the block started (with one connection nothing else can commit
\* in between), the exception keeps propagating, no open transaction is left
\* on a pooled connection, and a caller that is out of transaction() holds no
\* connection.
C6_TransactionAtomic ==
  /\ committedRows \subseteq db
  /\ abortedRows \cap db = {}
  /\ \A t \in Threads :
       /\ pc[t] \in {"rollback", "pool_except"} => exc[t]
       /\ (pc[t] \in {"rollback", "pool_except", "release"} /\ exc[t]) =>
            /\ wrote[t] \cap db = {}
            /\ (max_connections = 1 => db = snap[t])
       /\ pc[t] = "idle" => held[t] = NoConn /\ ~exc[t]
  /\ \A c \in SeqToSet(pool) : work[c] = {}

\* C9: with the default of one pooled connection at most one transaction is
\* in flight: at most one caller is between pool.get() and pool.put().
C9_Serialized ==
  max_connections = DefaultMaxConnections =>
    /\ Cardinality(InTransaction) <= 1
    /\ Cardinality(CheckedOut) <= 1

\* one caller is executing statements while another waits for the connection
C9_Witness ==
  /\ max_connections = DefaultMaxConnections
  /\ \E t, u \in Threads :
       /\ pc[t] = "in_block"
       /\ wrote[t] # {}
       /\ pc[u] = "waiting"
(***************************************************************************)
(* Claims about the per-class singleton                                    *)
(***************************************************************************)
Constructed(cls) == Len(calls[cls]) > 0
LastCall(cls) == calls[cls][Len(calls[cls])]

\* C7 (under SpecSingleton): the first construction of a manager class builds
\* one new object of that class whose pool is opened on the given path with
\* max_connections connections; every later construction of the class, with
\* any arguments, returns that same object and changes neither the objects,
\* their pools nor the number of opened connections.
C7_SingletonPerClass ==
  [][\A cls \in ManagerClasses :
        Len(calls'[cls]) = Len(calls[cls]) + 1 =>
          IF ~Constructed(cls)
            THEN /\ Len(instances') = Len(instances) + 1
                 /\ ret'[cls] = Len(instances')
                 /\ instances'[ret'[cls]] =
                      [cls |-> cls,
                       db_path |-> calls'[cls][1].db_path,
                       max_connections |-> calls'[cls][1].max_connections]
                 /\ connsOpened' = connsOpened + calls'[cls][1].max_connections
                 /\ \A i \in 1..Len(instances) : instances'[i] = instances[i]
            ELSE /\ ret'[cls] = ret[cls]
                 /\ instances' = instances
                 /\ connsOpened' = connsOpened
                 /\ _instance' = _instance]_vars

\* a class was constructed a second time with another path and still returned
\* its first object, with the pool on the first path
C7_Witness ==
  \E cls \in ManagerClasses :
    /\ Len(calls[cls]) = 2
    /\ calls[cls][2].db_path # calls[cls][1].db_path
    /\ instances[ret[cls]].db_path = calls[cls][1].db_path
    /\ connsOpened = calls[cls][1].max_connections

\* C8 (under SpecSingletonLib): in whatever order Database, EventManager and
\* FileManager are constructed, EventManager and FileManager have two distinct
\* objects, each of its own class, each with a pool on the path first passed
\* to that class.
C8_ManagersIndependent ==
  (Constructed("EventManager") /\ Constructed("FileManager")) =>
    /\ ret["EventManager"] # ret["FileManager"]
    /\ \A cls \in ManagerClasses :
         /\ instances[ret[cls]].cls = cls
         /\ instances[ret[cls]].db_path = calls[cls][1].db_path
(***************************************************************************)
(* Trace ids and uploads                                                   *)
(***************************************************************************)

Rejected400(msg) ==
  /\ answer.outcome = "rejected"
  /\ answer.code = BAD_REQUEST
  /\ answer.msg = msg

\* C1: an upload that supplies a trace id which GET /id never returned, or one
\* which an accepted upload has supplied before, is answered 400 "Invalid or
\* expired trace_id" and is not accepted; and in every state the head of upload
\* would answer so to any request supplying such an id.
C1_TraceIdAcceptedOnce ==
  /\ (answer.outcome # "none" /\ (answer.unissued \/ answer.reused))
       => Rejected400("Invalid or expired trace_id")
  /\ \A id \in TraceIds \ {NoId} :
       (id \notin issued \/ id \in consumed) =>
         \A coll \in CollectionNames, files \in Attachments :
           UploadCheck(id, coll, files) = "Invalid or expired trace_id"

\* an upload has supplied, and been refused, an id that an earlier upload was
\* accepted with
C1_Witness ==
  /\ Rejected400("Invalid or expired trace_id")
  /\ answer.reused
  /\ ~answer.unissued

\* C2: a step in which an upload is rejected with 400 changes neither cache,
\* neither database, no id and no upload in flight; a trace id in the
\* unused-id cache stays there.
C2_RejectedUploadChangesNothing ==
  [][answer'.outcome = "rejected" =>
       /\ answer'.code = BAD_REQUEST
       /\ UNCHANGED <<UNUSED_ID_CACHE, CACHE, cacheAge, cacheLru, nextUlid,
                      eventTables, eventRows, fileTables, up, issued,
                      consumed, progress_log>>]_vars

\* an upload supplying an id that is in the unused-id cache has been rejected
\* for its collection name or an empty attachment, and the id is still there
C2_Witness ==
  /\ answer.outcome = "rejected"
  /\ answer.supplied
  /\ answer.msg # "Invalid or expired trace_id"
  /\ UNUSED_ID_CACHE # <<>>

\* C10: the progress values an upload has written to its event never decrease
\* and lie in 0..100, and once v1_upload has ended, by returning or by an
\* exception of its own _update_event, the last value written is 100.
C10_ProgressMonotoneTo100 ==
  \A r \in Uploads :
    LET log == progress_log[r]
    IN /\ \A i \in 1..Len(log) : log[i] \in 0..100
       /\ \A i \in 1..(Len(log) - 1) : log[i] <= log[i + 1]
       /\ (up[r].pc = "done" \/ (up[r].pc = "failed" /\ up[r].error = "KeyError"))
            => (log # <<>> /\ log[Len(log)] = 100)

\* C11: on the step in which v1_upload completes for the N files of a request,
\* the event in the cache and the row of the event table are the same event,
\* with status "success", progress 100 and an included list of N entries
\* whose file names are those of the attachments in the order received; and
\* while it reads, an upload goes from a file to the next only, and only
\* after the file was read to its end and entered in the list.
C11_CompletedEventListsAllFiles ==
  [][\A r \in Uploads :
       /\ (up[r].pc = "reading" /\ up'[r].pc = "done") =>
            LET id == up[r].event_id
                files == up[r].files
            IN /\ id \in DOMAIN CACHE'
               /\ id \in DOMAIN eventRows'
               /\ CACHE'[id] = eventRows'[id]
               /\ CACHE'[id].status = "success"
               /\ CACHE'[id].progress = 100
               /\ Len(CACHE'[id].included) = Len(files)
               /\ \A i \in 1..Len(files) :
                    CACHE'[id].included[i].file_name = files[i].filename
       /\ (up[r].pc = "reading" /\ up'[r].pc = "reading") =>
            /\ up'[r].idx \in {up[r].idx, up[r].idx + 1}
            /\ up'[r].idx = up[r].idx + 1 => up[r].left = 0
            /\ Len(up'[r].included) = up'[r].idx - 1]_vars

\* v1_upload has returned for a request of two files, and the event lists both
C11_Witness ==
  \E r \in Uploads :
    /\ up[r].pc = "done"
    /\ up[r].event_id \in DOMAIN CACHE
    /\ CACHE[up[r].event_id].status = "success"
    /\ Len(CACHE[up[r].event_id].included) = 2

(***************************************************************************)
(* Responses of the routes                                                 *)
(***************************************************************************)

\* C12: when POST /upload sends its 200 response, the upload it answers has
\* not finished: the event's status is still "pending" or "running".
C12_RespondsBeforeUploadEnds ==
  (response.route = "upload" /\ response.status_code = OK) =>
    eventRows[response.event_id].status \in {"pending", "running"}

\* C13: GET /event/{id} answers 200 with the cached event when the id is in
\* the cache; otherwise 200 with the row of the event table, which it puts in
\* the cache; and when the id is in neither, the 404 envelope.
C13_EventFoundOr404 ==
  [][response'.route = "event" =>
       LET id == response'.event_id
       IN IF id \in DOMAIN CACHE
            THEN /\ response'.status_code = OK
                 /\ response'.data = <<CACHE[id]>>
          ELSE IF id \in DOMAIN eventRows
            THEN /\ response'.status_code = OK
                 /\ response'.data = <<eventRows[id]>>
                 /\ id \in DOMAIN CACHE'
                 /\ CACHE'[id] = eventRows[id]
          ELSE /\ response'.envelope
               /\ response'.status_code = NOT_FOUND
               /\ response'.err_code = NOT_FOUND
               /\ response'.data = <<>>]_vars

\* C19: a GET /id call leaves every id reserved: an id that is in the
\* unused-id cache before the call (issued, not consumed, its time to live
\* not elapsed) is still accepted by the head of upload after it, with a valid
\* collection name and valid attachments, whatever the configured maxsize.
C19_TraceIdReservedForTtl ==
  [][issued' # issued =>
       \A id \in SeqToSet(UNUSED_ID_CACHE) :
         \A coll \in CollectionNames, files \in Attachments :
           UploadCheck(id, coll, files) = "ok" =>
             (UploadCheck(id, coll, files) = "ok")']_vars

(***************************************************************************)
(* Waiting for a connection (under SpecPoolFair)                           *)
(***************************************************************************)

\* C20: a get_connection that is waiting for a connection does not wait for
\* ever: it ends, with a connection or with an error.
C20_AcquisitionEnds ==
  \A t \in Threads : (pc[t] = "waiting") ~> (pc[t] # "waiting")

(***************************************************************************)
(* Claims about the file and RAG routes (under SpecRag)                    *)
(***************************************************************************)

\* C14: every response with the envelope has err_code 0 exactly when its
\* status is 200, and a failure carries its HTTP status as err_code.
C14_ErrCodeMirrorsStatus ==
  response.envelope =>
    /\ response.err_code = 0 <=> response.status_code = OK
    /\ response.status_code # OK => response.err_code = response.status_code

\* an upload into the collection has completed with success
Uploaded(coll) ==
  /\ coll \in DOMAIN fileTables
  /\ \E row \in fileTables[coll] :
       /\ row.upload_id \in DOMAIN eventRows
       /\ eventRows[row.upload_id].status = "success"

\* C15: after an upload into C has completed with success, a POST /learn for
\* C, not loaded and with re false, whose documents can be loaded answers 200
\* and leaves C loaded, so that POST /chat on C is no longer answered 404.
C15_LearnAfterUploadLoads ==
  [][\A coll \in CollectionNames :
       (Uploaded(coll) /\ coll \notin vector_stores /\ Learn(coll, FALSE, TRUE)) =>
          /\ response'.status_code = OK
          /\ coll \in vector_stores']_vars

\* C16: POST /learn with re false for a loaded collection answers the 400
\* envelope and changes neither the registry, nor the vector database, nor
\* the file database.
C16_LearnLoadedRejected ==
  [][\A coll \in CollectionNames, created \in BOOLEAN :
       (coll \in vector_stores /\ Learn(coll, FALSE, created)) =>
          /\ response'.envelope
          /\ response'.status_code = BAD_REQUEST
          /\ response'.err_code = BAD_REQUEST
          /\ UNCHANGED <<vector_stores, chroma, fileTables>>]_vars

\* a learn without re has been refused for a collection that is loaded
C16_Witness ==
  /\ response.route = "learn"
  /\ response.status_code = BAD_REQUEST
  /\ response.err_msg = "Collection already exists"
  /\ response.collection_name \in vector_stores

\* C17: a DELETE /forget that answers 200 was for a loaded collection and
\* takes it out of the registry and of the vector database; a collection
\* enters the registry only by a POST /learn that answers 200; and every
\* POST /chat and DELETE /forget on a collection that is not loaded is
\* answered 404 and changes nothing.
C17_ForgottenUntilLearned ==
  [][\A coll \in CollectionNames :
       /\ (/\ response'.route = "forget"
           /\ response'.collection_name = coll
           /\ response'.status_code = OK) =>
            /\ coll \in vector_stores
            /\ coll \notin vector_stores'
            /\ coll \notin chroma'
       /\ (coll \notin vector_stores /\ coll \in vector_stores') =>
            /\ response'.route = "learn"
            /\ response'.collection_name = coll
            /\ response'.status_code = OK
       /\ (/\ coll \notin vector_stores
           /\ response'.route \in {"chat", "forget"}
           /\ response'.collection_name = coll) =>
            /\ response'.status_code = NOT_FOUND
            /\ response'.err_code = NOT_FOUND
            /\ UNCHANGED <<vector_stores, chroma, fileTables>>]_vars

\* a chat on a collection that a forget has removed is refused
C17_Witness ==
  /\ response.route = "chat"
  /\ response.status_code = NOT_FOUND
  /\ response.collection_name \in forgotten
  /\ response.collection_name \notin vector_stores \cup chroma

\* C18: GET /file/{collection} answers 200 with the rows of the collection's
\* table whenever the table exists, whatever the number of its rows, and
\* answers 404 only when there is no such table, then with the message
\* "Collection not found".
C18_FileListOfExistingCollection ==
  response.route = "file" =>
    LET coll == response.collection_name
    IN /\ coll \in DOMAIN fileTables =>
            /\ response.status_code = OK
            /\ response.data = <<fileTables[coll]>>
       /\ response.status_code = NOT_FOUND =>
            /\ coll \notin DOMAIN fileTables
            /\ response.err_msg = "Collection not found"

(***************************************************************************)
(* Direct calls of EventManager (SpecEvents): each call is one             *)
(* transaction of one caller on the manager's pool.                        *)
(***************************************************************************)
\* Database.transaction around a block, for a caller alone on the pool: the
\* block's exit commits; an exception rolls back, leaves through
\* get_connection, which closes the connection and opens another, and goes on
\* to the caller
transaction(raised) ==
  [committed |-> ~raised, rolled_back |-> raised, replaced |-> raised]

\* the result of a call of a manager
Called(call, event_type, event_id, collection_name, raised, error, value, msg) ==
  LET tx == transaction(raised)
  IN [ call |-> call, raised |-> raised, error |-> error, value |-> value,
       msg |-> msg, committed |-> tx.committed, rolled_back |-> tx.rolled_back,
       replaced |-> tx.replaced, event_type |-> event_type,
       event_id |-> event_id, collection_name |-> collection_name,
       used |-> <<>> ]

\* the variables of the routes that no direct call touches
routeVars ==
  <<UNUSED_ID_CACHE, unusedMaxsize, CACHE, cacheAge, cacheLru, cacheMaxsize,
    nextUlid, up, answer, response, issued, consumed, progress_log>>

\* the event type the program creates, and one whose table is never made
EventTypes == {"upload", "learn"}

\* the columns new_event_type gives a table
EventColumns == {"event_id", "status", "detail", "added_at"}

\* details as the upload route and _update_event write them, and the empty one
FileEntry(file_id, file_name) ==
  JsonDict(<<"file_id", "file_name">>, <<JsonStr(file_id), JsonStr(file_name)>>)

Detail(progress, included) ==
  JsonDict(<<"progress", "included">>, <<JsonInt(progress), JsonList(included)>>)

Details ==
  {JsonDict(<<>>, <<>>)} \cup
  { Detail(0, <<>>),
    Detail(100, <<FileEntry("f2", "b.md"), FileEntry("f1", "a.txt")>>) }

\* EventMetadata(event_id, type, status, detail)
Metadata ==
  [ event_id : Ulids, type : EventTypes, status : {"pending", "success"},
    detail : Details ]

\* EventManager.add_event on the tables and the rows of "upload": the row
\* holds the status and the detail as JSON text
add_event(tables, rows, m) ==
  IF m.type \notin tables
    THEN [raised |-> TRUE, error |-> "no such table", rows |-> rows]
  ELSE IF m.event_id \in DOMAIN rows
    THEN [raised |-> TRUE, error |-> "UNIQUE constraint failed", rows |-> rows]
  ELSE [raised |-> FALSE, error |-> "",
        rows |-> Put(rows, m.event_id,
                     [status |-> m.status, detail |-> marshall_json(m.detail)])]

\* EventManager.get_event: None (<<>>) without a row, else the row with its
\* detail decoded (the column added_at is left out)
get_event(tables, rows, event_type, event_id) ==
  IF event_type \notin tables
    THEN [raised |-> TRUE, error |-> "no such table", value |-> <<>>]
  ELSE IF event_id \notin DOMAIN rows
    THEN [raised |-> FALSE, error |-> "", value |-> <<>>]
  ELSE [raised |-> FALSE, error |-> "",
        value |-> << [ event_id |-> event_id, status |-> rows[event_id].status,
                       detail |-> unmarshall_json(rows[event_id].detail).value ] >>]

\* a delete_event whose statement names the column event_id
delete_by_event_id(tables, rows, event_type, event_id) ==
  IF event_type \notin tables
    THEN [raised |-> TRUE, error |-> "no such table", rows |-> rows]
    ELSE [raised |-> FALSE, error |-> "",
          rows |-> Restrict(rows, DOMAIN rows \ {event_id})]

\* EventManager.delete_event: DELETE FROM {event_type} WHERE file_id = ?
delete_event(tables, rows, event_type, event_id) ==
  IF event_type \notin tables
    THEN [raised |-> TRUE, error |-> "no such table", rows |-> rows]
  ELSE IF "file_id" \notin EventColumns
    THEN [raised |-> TRUE, error |-> "no such column: file_id", rows |-> rows]
  ELSE [raised |-> FALSE, error |-> "",
        rows |-> Restrict(rows, DOMAIN rows \ {event_id})]

\* EventManager.clean_expired_events:
\* DELETE FROM events WHERE event_type = ? AND added_at < ...; expired are
\* the ids of the rows older than max_age
clean_expired_events(tables, rows, event_type, expired) ==
  IF "events" \notin tables
    THEN [raised |-> TRUE, error |-> "no such table: events", rows |-> rows]
  ELSE IF "event_type" \notin EventColumns
    THEN [raised |-> TRUE, error |-> "no such column: event_type", rows |-> rows]
  ELSE [raised |-> FALSE, error |-> "",
        rows |-> Restrict(rows, DOMAIN rows \ expired)]

\* EventManager.new_event_type: CREATE TABLE IF NOT EXISTS {event_type}
NewEventType(event_type) ==
  /\ eventTables' = eventTables \cup {event_type}
  /\ result' = Called("new_event_type", event_type, NoId, <<>>, FALSE, "", <<>>, "")
  /\ UNCHANGED <<routeVars, eventRows, fileTables, ragVars, mainVars>>
  /\ UNCHANGED <<poolVars, singletonVars>>

AddEvent(m) ==
  /\ LET r == add_event(eventTables, eventRows, m)
     IN /\ eventRows' = r.rows
        /\ result' = Called("add_event", m.type, m.event_id, <<>>, r.raised,
                            r.error, <<>>, "")
  /\ UNCHANGED <<routeVars, eventTables, fileTables, ragVars, mainVars>>
  /\ UNCHANGED <<poolVars, singletonVars>>

GetEventCall(event_type, event_id) ==
  /\ LET r == get_event(eventTables, eventRows, event_type, event_id)
     IN result' = Called("get_event", event_type, event_id, <<>>, r.raised,
                         r.error, r.value, "")
  /\ UNCHANGED <<routeVars, eventTables, eventRows, fileTables, ragVars, mainVars>>
  /\ UNCHANGED <<poolVars, singletonVars>>

DeleteEvent(event_type, event_id) ==
  /\ LET r == delete_event(eventTables, eventRows, event_type, event_id)
     IN /\ eventRows' = r.rows
        /\ result' = Called("delete_event", event_type, event_id, <<>>, r.raised,
                            r.error, <<>>, "")
  /\ UNCHANGED <<routeVars, eventTables, fileTables, ragVars, mainVars>>
  /\ UNCHANGED <<poolVars, singletonVars>>

CleanExpiredEvents(event_type, expired) ==
  /\ LET r == clean_expired_events(eventTables, eventRows, event_type, expired)
     IN /\ eventRows' = r.rows
        /\ result' = Called("clean_expired_events", event_type, NoId, <<>>,
                            r.raised, r.error, <<>>, "")
  /\ UNCHANGED <<routeVars, eventTables, fileTables, ragVars, mainVars>>
  /\ UNCHANGED <<poolVars, singletonVars>>

NextEvents ==
  \/ NewEventType("upload")
  \/ \E m \in Metadata : AddEvent(m)
  \/ \E event_type \in EventTypes, event_id \in Ulids :
       GetEventCall(event_type, event_id)
  \/ \E event_type \in EventTypes, event_id \in Ulids :
       DeleteEvent(event_type, event_id)
  \/ \E event_type \in EventTypes, expired \in SUBSET DOMAIN eventRows :
       CleanExpiredEvents(event_type, expired)

\* the managers as main builds them, before any call
InitManagers ==
  /\ InitPoolWith(DefaultMaxConnections)
  /\ InitSingleton
  /\ InitHttpWith(MaxCacheSize, MaxCacheSize)
  /\ InitRagWith({})
  /\ InitLib /\ InitServing

SpecEvents == InitManagers /\ [][NextEvents]_vars

\* C21: add_event of a metadata with a fresh id, followed by get_event of
\* that id, returns the id, the status and the detail of the metadata, the
\* detail as a mapping; get_event of an id that was never added returns None.
C21_AddThenGetRoundTrip ==
  [][ /\ \A m \in Metadata :
           (m.event_id \notin DOMAIN eventRows /\ AddEvent(m) /\ ~result'.raised) =>
             LET r == get_event(eventTables', eventRows', m.type, m.event_id)
             IN /\ ~r.raised
                /\ r.value = << [ event_id |-> m.event_id, status |-> m.status,
                                  detail |-> m.detail ] >>
                /\ r.value[1].detail.kind = "dict"
      /\ \A event_type \in EventTypes, event_id \in Ulids :
           ( /\ event_type \in eventTables
             /\ event_id \notin DOMAIN eventRows
             /\ GetEventCall(event_type, event_id) ) =>
             ~result'.raised /\ result'.value = <<>> ]_vars

\* an event with two files has been added and read back, and an id that was
\* never added has been asked for
C21_Witness ==
  /\ result.call = "get_event"
  /\ ~result.raised
  /\ result.value # <<>>
  /\ result.value[1].detail.kind = "dict"
  /\ Len(result.value[1].detail.keys) = 2
  /\ Len(result.value[1].detail.vals[2].items) = 2
  /\ \E id \in Ulids : id \notin DOMAIN eventRows

(***************************************************************************)
(* Direct calls of FileManager and of RAGSystem (SpecLib)                  *)
(***************************************************************************)
\* FileManager.new_collection: CREATE TABLE IF NOT EXISTS {collection_name}
new_collection(tables, collection_name) ==
  IF ~SqlIdentifierOk(collection_name)
    THEN [raised |-> TRUE, error |-> "syntax error", tables |-> tables]
  ELSE [raised |-> FALSE, error |-> "",
        tables |-> IF collection_name \in DOMAIN tables THEN tables
                   ELSE Put(tables, collection_name, {})]

\* FileManager.add_file: INSERT INTO {collection_name} ...
add_file(tables, collection_name, row) ==
  IF ~SqlIdentifierOk(collection_name)
    THEN [raised |-> TRUE, error |-> "syntax error", tables |-> tables]
  ELSE IF collection_name \notin DOMAIN tables
    THEN [raised |-> TRUE, error |-> "no such table", tables |-> tables]
  ELSE IF \E old \in tables[collection_name] : old.id = row.id
    THEN [raised |-> TRUE, error |-> "UNIQUE constraint failed", tables |-> tables]
  ELSE [raised |-> FALSE, error |-> "",
        tables |-> [tables EXCEPT ![collection_name] = @ \cup {row}]]

\* FileManager.get_file_metadata: of the errors of the SELECT only "no such
\* table" is caught
get_file_metadata(tables, collection_name, file_id) ==
  IF ~SqlIdentifierOk(collection_name)
    THEN [raised |-> TRUE, error |-> "syntax error", value |-> <<>>, msg |-> ""]
  ELSE IF collection_name \notin DOMAIN tables
    THEN [raised |-> FALSE, error |-> "", value |-> <<>>,
          msg |-> "Collection not found"]
  ELSE IF \E row \in tables[collection_name] : row.id = file_id
    THEN [raised |-> FALSE, error |-> "",
          value |-> <<CHOOSE row \in tables[collection_name] : row.id = file_id>>,
          msg |-> "Found the file"]
  ELSE [raised |-> FALSE, error |-> "", value |-> <<>>, msg |-> "File not found"]

\* the files a caller records
FileIds == {FileId(1, 1), FileId(1, 2)}
FileRows ==
  { [id |-> file_id, name |-> "a.txt", size |-> ChunkSize \div 2, upload_id |-> 1] :
      file_id \in FileIds }

NewCollection(collection_name) ==
  /\ LET r == new_collection(fileTables, collection_name)
     IN /\ fileTables' = r.tables
        /\ result' = Called("new_collection", "", NoId, collection_name, r.raised,
                            r.error, <<>>, "")
  /\ UNCHANGED <<routeVars, eventTables, eventRows, ragVars, mainVars>>
  /\ UNCHANGED <<poolVars, singletonVars>>

AddFile(collection_name, row) ==
  /\ LET r == add_file(fileTables, collection_name, row)
     IN /\ fileTables' = r.tables
        /\ result' = Called("add_file", "", NoId, collection_name, r.raised,
                            r.error, <<>>, "")
  /\ UNCHANGED <<routeVars, eventTables, eventRows, ragVars, mainVars>>
  /\ UNCHANGED <<poolVars, singletonVars>>

\* the list of rows get_file_list returns, or None
FileList(fl) == IF fl.found THEN <<[kind |-> "list", rows |-> fl.rows]>> ELSE <<>>

GetFileListCall(collection_name, show_simple) ==
  /\ LET r == get_file_list(collection_name, show_simple)
     IN result' = Called("get_file_list", "", NoId, collection_name, r.raised,
                         IF r.raised THEN r.msg ELSE "", FileList(r),
                         IF r.raised THEN "" ELSE r.msg)
  /\ UNCHANGED <<routeVars, eventTables, eventRows, fileTables, ragVars, mainVars>>
  /\ UNCHANGED <<poolVars, singletonVars>>

GetFileMetadataCall(collection_name, file_id) ==
  /\ LET r == get_file_metadata(fileTables, collection_name, file_id)
     IN result' = Called("get_file_metadata", "", NoId, collection_name, r.raised,
                         r.error, r.value, r.msg)
  /\ UNCHANGED <<routeVars, eventTables, eventRows, fileTables, ragVars, mainVars>>
  /\ UNCHANGED <<poolVars, singletonVars>>

\* the result of a call of RAGSystem, which catches what its body raises
Returned(call, collection_name, used, value, msg) ==
  [ call |-> call, raised |-> FALSE, error |-> "", value |-> value, msg |-> msg,
    committed |-> FALSE, rolled_back |-> FALSE, replaced |-> FALSE,
    event_type |-> "", event_id |-> NoId, collection_name |-> collection_name,
    used |-> used ]

CreateFirst ==
  "the collection not found and the default collection not exist, please create collection first"

\* Python values with their types: a str, a tuple and a set
PyText(s) == [kind |-> "str", text |-> s]
PyTuple(items) == [kind |-> "tuple", items |-> items]
PySet(members) == [kind |-> "set", members |-> members]

\* what the except clause of query returns for the exception e:
\* (("", {str(e)}),)
QueryError(e) == PyTuple(<< PyTuple(<<PyText(""), PySet({e})>>) >>)

\* RAGSystem.query: the collection it searches (<<>> for none) and the tuple
\* it returns.  answered: similarity_search and the chat completion returned.
query(stores, collection_name, answered) ==
  LET name == IF collection_name \in stores THEN collection_name
              ELSE DefaultCollection
  IN IF name \notin stores
       THEN [used |-> <<>>, returned |-> QueryError(CreateFirst)]
     ELSE IF answered
       THEN [used |-> <<name>>,
             returned |-> PyTuple(<<PyText("content"),
                                    PyText("Get response successfully")>>)]
     ELSE [used |-> <<name>>, returned |-> QueryError("APIError")]

\* the value is a tuple (answer, message) of two strings
IsAnswerMessagePair(v) ==
  /\ v.kind = "tuple"
  /\ Len(v.items) = 2
  /\ v.items[1].kind = "str"
  /\ v.items[2].kind = "str"

\* the dict get_collection_info returns for a collection
CollectionInfo(collection_name) == [kind |-> "dict", name |-> collection_name]

\* a create_collection that removes the old collection before it loads the
\* documents
create_after_delete(rag, collection_name, documents, built) ==
  LET cleared == IF collection_name \in rag.vector_stores
                   THEN delete_collection(rag, collection_name) ELSE rag
  IN IF documents = 0
       THEN [rag |-> cleared, value |-> <<>>,
             msg |-> "Error creating collection: No documents found"]
     ELSE IF built
       THEN [rag |-> [vector_stores |-> cleared.vector_stores \cup {collection_name},
                      chroma |-> cleared.chroma \cup {collection_name}],
             value |-> <<CollectionInfo(collection_name)>>, msg |-> "Collection created successfully"]
     ELSE [rag |-> cleared, value |-> <<>>, msg |-> "Error creating collection"]

\* RAGSystem.create_collection.  documents: the number of chunks
\* load_documents returns for the directory; built: Chroma.from_documents
\* returned.  The result is (get_collection_info or None, message).
create_collection(rag, collection_name, documents, built) ==
  IF documents = 0
    THEN [rag |-> rag, value |-> <<>>,
          msg |-> "Error creating collection: No documents found"]
  ELSE LET is_overwrite == collection_name \in rag.vector_stores
           cleared == IF is_overwrite
                        THEN delete_collection(rag, collection_name) ELSE rag
       IN IF built
            THEN [rag |-> [vector_stores |-> cleared.vector_stores \cup {collection_name},
                           chroma |-> cleared.chroma \cup {collection_name}],
                  value |-> <<CollectionInfo(collection_name)>>,
                  msg |-> IF is_overwrite THEN "Collection relearned successfully"
                          ELSE "Collection created successfully"]
            ELSE [rag |-> cleared, value |-> <<>>, msg |-> "Error creating collection"]

Query(collection_name, answered) ==
  /\ LET q == query(vector_stores, collection_name, answered)
     IN result' = Returned("query", collection_name, q.used, <<q.returned>>, "")
  /\ UNCHANGED <<routeVars, eventTables, eventRows, fileTables, ragVars, mainVars>>
  /\ UNCHANGED <<poolVars, singletonVars>>

CreateCollection(collection_name, documents, built) ==
  /\ LET c == create_collection([vector_stores |-> vector_stores, chroma |-> chroma],
                                collection_name, documents, built)
     IN /\ vector_stores' = c.rag.vector_stores
        /\ chroma' = c.rag.chroma
        /\ result' = Returned("create_collection", collection_name, <<>>, c.value, c.msg)
  /\ UNCHANGED <<routeVars, eventTables, eventRows, fileTables, forgotten, mainVars>>
  /\ UNCHANGED <<poolVars, singletonVars>>

\* the chunks load_documents finds: none, or those of two files
DocumentCounts == {0, 2}

NextLib ==
  \/ \E collection_name \in CollectionNames : NewCollection(collection_name)
  \/ \E collection_name \in CollectionNames, row \in FileRows :
       AddFile(collection_name, row)
  \/ \E collection_name \in CollectionNames, show_simple \in BOOLEAN :
       GetFileListCall(collection_name, show_simple)
  \/ \E collection_name \in CollectionNames, file_id \in FileIds :
       GetFileMetadataCall(collection_name, file_id)
  \/ \E collection_name \in CollectionNames, answered \in BOOLEAN :
       Query(collection_name, answered)
  \/ \E collection_name \in CollectionNames, documents \in DocumentCounts,
        built \in BOOLEAN :
       CreateCollection(collection_name, documents, built)

SpecLib == InitRag /\ [][NextLib]_vars

\* C22: get_file_list of a collection that was never created returns
\* (None, "Collection not found"), and get_file_metadata of an existing
\* collection and an absent file id returns (None, "File not found"); neither
\* raises, the transaction commits and the connection is not replaced.
C22_NotFoundResults ==
  [][ /\ \A collection_name \in CollectionNames, show_simple \in BOOLEAN :
           ( /\ collection_name \notin DOMAIN fileTables
             /\ GetFileListCall(collection_name, show_simple) ) =>
             /\ ~result'.raised
             /\ result'.value = <<>> /\ result'.msg = "Collection not found"
             /\ result'.committed /\ ~result'.replaced
      /\ \A collection_name \in CollectionNames, file_id \in FileIds :
           ( /\ collection_name \in DOMAIN fileTables
             /\ \A row \in fileTables[collection_name] : row.id # file_id
             /\ GetFileMetadataCall(collection_name, file_id) ) =>
             /\ ~result'.raised
             /\ result'.value = <<>> /\ result'.msg = "File not found"
             /\ result'.committed /\ ~result'.replaced ]_vars

\* C23: query of a name that is not loaded searches "default" when that is
\* loaded; when neither is loaded it returns, without raising, a pair
\* (answer, message) like a successful query, whose message says to create
\* the collection first.
C23_QueryFallsBackOrReports ==
  [][ \A collection_name \in CollectionNames, answered \in BOOLEAN :
        (collection_name \notin vector_stores /\ Query(collection_name, answered)) =>
          /\ ~result'.raised
          /\ DefaultCollection \in vector_stores =>
                result'.used = <<DefaultCollection>>
          /\ DefaultCollection \notin vector_stores =>
                /\ IsAnswerMessagePair(result'.value[1])
                /\ result'.value[1].items[2].text = CreateFirst ]_vars

\* C24: create_collection on a directory without documents returns
\* (None, message) and leaves the registry and the vector database as they
\* were.
C24_NoDocumentsChangesNothing ==
  [][ \A collection_name \in CollectionNames, built \in BOOLEAN :
        CreateCollection(collection_name, 0, built) =>
          /\ ~result'.raised
          /\ result'.value = <<>>
          /\ result'.msg = "Error creating collection: No documents found"
          /\ UNCHANGED <<vector_stores, chroma>> ]_vars

\* create_collection found no documents for a collection that is loaded, and
\* the collection is still loaded
C24_Witness ==
  /\ result.call = "create_collection"
  /\ result.msg = "Error creating collection: No documents found"
  /\ result.collection_name \in vector_stores
  /\ result.collection_name \in chroma

(***************************************************************************)
(* The event table under the routes and the two deleting calls of          *)
(* EventManager, which no route makes (SpecStore)                          *)
(***************************************************************************)
NextStore ==
  \/ NextRag
  \/ \E event_type \in EventTypes, event_id \in Ulids :
       DeleteEvent(event_type, event_id)
  \/ \E event_type \in EventTypes, expired \in SUBSET DOMAIN eventRows :
       CleanExpiredEvents(event_type, expired)

SpecStore == InitRag /\ [][NextStore]_vars

Loaded(r) ==
  [ NoResult EXCEPT !.call = "get_config", !.raised = r.raised,
                    !.error = r.error, !.value = r.value ]

\* main.py:6  var.CONFIG = get_config()
MainGetConfig ==
  /\ mainPc = "config"
  /\ LET r == get_config(_CONFIG, document)
     IN /\ _CONFIG' = r.global
        /\ handles' = IF r.raised THEN handles ELSE Append(handles, "CONFIG")
        /\ mainPc' = IF r.raised THEN "crashed" ELSE "logger"
  /\ UNCHANGED <<document, released, ending, result>>
  /\ UNCHANGED <<poolVars, singletonVars, httpVars>>

\* main.py:7-11  var.APP_LOG = AppLog(..., timezone=var.CONFIG.general.timezone)
MainLogger ==
  /\ mainPc = "logger"
  /\ handles' = Append(handles, "APP_LOG")
  /\ mainPc' = "rag"
  /\ UNCHANGED <<document, _CONFIG, released, ending, result>>
  /\ UNCHANGED <<poolVars, singletonVars, httpVars>>

\* main.py:19-22  var.RAG_SYSTEM = RAGSystem(openai_api_key=...,
\* db_dir=var.CONFIG.db.vector.dir): the arguments are evaluated first, and
\* reading an attribute the object does not have raises AttributeError
MainRag ==
  /\ mainPc = "rag"
  /\ LET config == _CONFIG[1]
         raised == ~hasattr(config.db, "vector")
     IN /\ handles' = IF raised THEN handles ELSE Append(handles, "RAG_SYSTEM")
        /\ mainPc' = IF raised THEN "crashed" ELSE "event_manager"
  /\ UNCHANGED <<document, _CONFIG, released, ending, result>>
  /\ UNCHANGED <<poolVars, singletonVars, httpVars>>

\* a later call of get_config, by any module of the running process
GetConfigAgain ==
  /\ mainPc \in {"logger", "rag"}
  /\ LET r == get_config(_CONFIG, document)
     IN /\ _CONFIG' = r.global
        /\ result' = Loaded(r)
  /\ UNCHANGED <<document, handles, mainPc, released, ending>>
  /\ UNCHANGED <<poolVars, singletonVars, httpVars>>

\* the file on disk is rewritten while the process runs
RewriteDocument(doc) ==
  /\ mainPc \in {"logger", "rag"}
  /\ doc # document
  /\ document' = doc
  /\ UNCHANGED <<_CONFIG, handles, mainPc, released, ending, result>>
  /\ UNCHANGED <<poolVars, singletonVars, httpVars>>

NextMain ==
  \/ MainGetConfig
  \/ MainLogger
  \/ MainRag
  \/ GetConfigAgain
  \/ \E doc \in Documents : RewriteDocument(doc)

\* the process at the first statement of main.py, share/var.py all None
InitMain ==
  /\ InitPoolWith(DefaultMaxConnections)
  /\ InitSingleton
  /\ InitHttpWith(MaxCacheSize, MaxCacheSize)
  /\ InitRagWith({})
  /\ InitLib
  /\ document \in Documents
  /\ _CONFIG = <<>>
  /\ handles = <<>>
  /\ mainPc = "config"
  /\ released = <<>>
  /\ ending = NoEnding

SpecMain == InitMain /\ [][NextMain]_vars

IsPrefix(s, t) == Len(s) <= Len(t) /\ s = SubSeq(t, 1, Len(s))

\* C26: the handles are assigned in the order CONFIG, APP_LOG, RAG_SYSTEM,
\* EVENT_MANAGER, FILE_MANAGER, CACHE, UNUSED_ID_CACHE, each once; a start
\* that has loaded its configuration goes on until all seven are assigned,
\* and serves only with all seven assigned.
C26_StartupPopulatesHandles ==
  /\ IsPrefix(handles, HandleOrder)
  /\ mainPc = "serving" => handles = HandleOrder
  /\ mainPc = "crashed" => _CONFIG = <<>>

\* the tables of a document the configuration object has to show
ConfigTables ==
  { <<"general">>, <<"openai">>, <<"server">>, <<"upload">>,
    <<"middleware", "cors">>, <<"db", "event">>, <<"db", "file">>,
    <<"cache", "general">>, <<"cache", "unused_id">> }

Table(x, path) == IF Len(path) = 1 THEN x[path[1]] ELSE x[path[1]][path[2]]

\* every field of every table of the document has its value in the object,
\* but server.workers = -1, which has the logical core count
Faithful(config, doc) ==
  \A path \in ConfigTables :
    LET given == Table(doc, path)
        object == Table(config, path)
    IN \A f \in DOMAIN given :
         /\ hasattr(object, f)
         /\ object[f] = IF path = <<"server">> /\ f = "workers" /\ given[f] = -1
                           THEN LogicalCores ELSE given[f]

\* C28: the object a well-formed document is loaded into shows every field
\* of every table with the document's value (server.workers = -1 as the
\* logical core count), and later calls of get_config return that object.
C28_ConfigFaithfulAndCached ==
  [][ /\ (_CONFIG = <<>> /\ _CONFIG' # <<>>) => Faithful(_CONFIG'[1], document)
      /\ _CONFIG # <<>> =>
           /\ _CONFIG' = _CONFIG
           /\ GetConfigAgain => result'.value = _CONFIG ]_vars

(***************************************************************************)
(* The ways out of asyncio.run(serve()) in main.py (SpecServe): the        *)
(* server answers requests until serve is left; then the except and the    *)
(* finally clauses run.                                                    *)
(***************************************************************************)
\* AppLog._error_exit_code
ErrorExitCode == -1

\* the statements of the finally clause after its log line
FinallyOrder == <<"RAG_SYSTEM.client", "EVENT_MANAGER.pool", "FILE_MANAGER.pool">>

\* a critical that ends the process on the spot
critical_kills(message) ==
  [logged |-> message, pc |-> "ended", exit_code |-> ErrorExitCode]

\* AppLog.critical: logs the message and calls sys.exit, which raises
\* SystemExit; raised in an except clause of main it passes through the
\* finally clause
critical(message) ==
  [logged |-> message, pc |-> "finally", exit_code |-> ErrorExitCode]

\* serve returns
ServeReturns ==
  /\ mainPc = "serving"
  /\ mainPc' = "finally"
  /\ ending' = [ending EXCEPT !.way = "return"]
  /\ UNCHANGED <<document, _CONFIG, handles, released, result>>
  /\ UNCHANGED <<poolVars, singletonVars, httpVars>>

\* except KeyboardInterrupt: a line is logged
ServeInterrupted ==
  /\ mainPc = "serving"
  /\ mainPc' = "finally"
  /\ ending' = [ending EXCEPT !.way = "KeyboardInterrupt"]
  /\ UNCHANGED <<document, _CONFIG, handles, released, result>>
  /\ UNCHANGED <<poolVars, singletonVars, httpVars>>

\* an exception of another class leaves serve: the clause except Exception
\* is entered
ServeRaises ==
  /\ mainPc = "serving"
  /\ mainPc' = "except"
  /\ ending' = [ending EXCEPT !.way = "Exception"]
  /\ UNCHANGED <<document, _CONFIG, handles, released, result>>
  /\ UNCHANGED <<poolVars, singletonVars, httpVars>>

\* var.APP_LOG.critical(f"Error occurred: {e}")
LogCritical ==
  /\ mainPc = "except"
  /\ LET c == critical("Error occurred")
     IN /\ mainPc' = c.pc
        /\ ending' = [ending EXCEPT !.critical = TRUE, !.exit_code = c.exit_code]
  /\ UNCHANGED <<document, _CONFIG, handles, released, result>>
  /\ UNCHANGED <<poolVars, singletonVars, httpVars>>

\* var.RAG_SYSTEM.client.close()
CloseClient ==
  /\ mainPc = "finally"
  /\ released = <<>>
  /\ released' = Append(released, "RAG_SYSTEM.client")
  /\ UNCHANGED <<document, _CONFIG, handles, mainPc, ending, result>>
  /\ UNCHANGED <<poolVars, singletonVars, httpVars>>

\* var.EVENT_MANAGER.pool.close_all(), which catches what closing raises
CloseAllEvents ==
  /\ mainPc = "finally"
  /\ released = <<"RAG_SYSTEM.client">>
  /\ released' = Append(released, "EVENT_MANAGER.pool")
  /\ UNCHANGED <<document, _CONFIG, handles, mainPc, ending, result>>
  /\ UNCHANGED <<poolVars, singletonVars, httpVars>>

\* var.FILE_MANAGER.pool.close_all()
CloseAllFiles ==
  /\ mainPc = "finally"
  /\ released = <<"RAG_SYSTEM.client", "EVENT_MANAGER.pool">>
  /\ released' = Append(released, "FILE_MANAGER.pool")
  /\ UNCHANGED <<document, _CONFIG, handles, mainPc, ending, result>>
  /\ UNCHANGED <<poolVars, singletonVars, httpVars>>

\* the finally clause is done: the module ends, or SystemExit goes on
ProcessEnds ==
  /\ mainPc = "finally"
  /\ Len(released) = Len(FinallyOrder)
  /\ mainPc' = "ended"
  /\ UNCHANGED <<document, _CONFIG, handles, released, ending, result>>
  /\ UNCHANGED <<poolVars, singletonVars, httpVars>>

NextServe ==
  \/ NextRag
  \/ ServeReturns
  \/ ServeInterrupted
  \/ ServeRaises
  \/ LogCritical
  \/ CloseClient
  \/ CloseAllEvents
  \/ CloseAllFiles
  \/ ProcessEnds

SpecServe == InitRag /\ [][NextServe]_vars

\* C27: however serve is left, the process ends only after the chat client
\* has been closed and close_all has been called on the pool of the event
\* manager and on that of the file manager, in this order; an exception
\* other than a keyboard interruption has been logged as critical, with the
\* error exit code, before the releases.
C27_ReleasesBeforeEnd ==
  /\ IsPrefix(released, FinallyOrder)
  /\ mainPc = "ended" => released = FinallyOrder /\ ending.way # "none"
  /\ (mainPc \in {"finally", "ended"} /\ ending.way = "Exception") =>
       ending.critical /\ ending.exit_code = ErrorExitCode
  /\ released # <<>> => mainPc \in {"finally", "ended"}

\* an exception left serve while an upload was in flight, and the process
\* has ended
C27_Witness ==
  /\ mainPc = "ended"
  /\ ending.way = "Exception"
  /\ released = FinallyOrder
  /\ \E r \in Uploads : up[r].pc = "reading"

(***************************************************************************)
(* Who writes an event (under Spec)                                        *)
(***************************************************************************)
\* the step stores a value under the id in the general cache
CacheWritten(id) ==
  /\ id \in DOMAIN CACHE'
  /\ id \in DOMAIN CACHE => CACHE'[id] # CACHE[id]

\* the step inserts or updates the row of the id in the event table
RowWritten(id) ==
  /\ id \in DOMAIN eventRows'
  /\ id \in DOMAIN eventRows => eventRows'[id] # eventRows[id]

\* the step is a step of the upload request r, whose event is id
StepOfUpload(r, id) ==
  /\ up'[r] # up[r]
  /\ up[r].event_id = id \/ up'[r].event_id = id

\* C29: every step that writes the cache entry or the event row of an id is
\* a step of the upload request that created the event of that id.
C29_OnlyItsUploadWritesAnEvent ==
  [][\A id \in Ulids :
       (CacheWritten(id) \/ RowWritten(id)) =>
         \E r \in Uploads : StepOfUpload(r, id)]_vars

\* C30: no upload ends because _update_event did not find the event's entry
\* in the general cache.
C30_UpdateFindsCacheEntry ==
  \A r \in Uploads : ~(up[r].pc = "failed" /\ up[r].error = "KeyError")

(***************************************************************************)
(* The end of an upload                                                    *)
(***************************************************************************)
\* the event loop runs a handler on to its next await and to its end; the
\* attachments are spooled before upload is called, so a read returns; that
\* a read or a write raises is the affair of the file system, not of the loop
FairUpload ==
  /\ \A r \in Uploads :
       /\ WF_vars(\E throttled \in BOOLEAN : ReadChunk(r, throttled))
       /\ WF_vars(ReadEof(r))
       /\ WF_vars(Return(r))
  /\ WF_vars(Deliver)

SpecFair == Init /\ [][NextHttp]_vars /\ FairUpload

TerminalStatuses == {"success", "failure"}

\* C31: every event an accepted upload has added to the event table
\* eventually has the status success or failure.
C31_UploadEndsTerminal ==
  \A id \in Ulids :
    (id \in DOMAIN eventRows)
      ~> (id \in DOMAIN eventRows /\ eventRows[id].status \in TerminalStatuses)

(***************************************************************************)
(* The response of an upload                                               *)
(***************************************************************************)
\* C32: the event in the 200 response of an upload is the event as the event
\* table holds it, and as the general cache holds it, when the response is
\* produced: the same status, progress and included list.
C32_ResponseShowsEventState ==
  (response.route = "upload" /\ response.status_code = OK) =>
    LET id == response.event_id
        sent == response.data[1]
    IN /\ id \in DOMAIN eventRows
       /\ sent = eventRows[id]
       /\ id \in DOMAIN CACHE => sent = CACHE[id]

(***************************************************************************)
(* The general cache and the event table                                   *)
(***************************************************************************)
\* ---- the event database refuses a write ----
\* sqlite raises OperationalError (the database is locked by another
\* connection past busy_timeout, or cannot be written) in a statement of the
\* EventManager; transaction rolls back and the exception leaves the handler
WriteStatements == {"new_event_type", "add_event"}

\* upload when the statement at raises: the trace id has been popped and the
\* cache entry stored, no row is inserted and new_collection is not reached
UploadAddEventRaises(r, trace_id, coll, files, at) ==
  /\ Idle
  /\ up[r].pc = "free"
  /\ UploadCheck(trace_id, coll, files) = "ok"
  /\ trace_id = NoId => nextUlid <= MaxUlids
  /\ LET event_id == IF trace_id # NoId THEN trace_id ELSE nextUlid
         c == CacheSet(TheCache, cacheMaxsize, event_id, EventDict("pending", 0, <<>>))
         u0 == [FreeSlot EXCEPT !.event_id = event_id, !.coll = coll, !.files = files]
     IN /\ UNUSED_ID_CACHE' = IF trace_id # NoId
                                THEN PopTraceId(UNUSED_ID_CACHE, trace_id)
                                ELSE UNUSED_ID_CACHE
        /\ consumed' = IF trace_id # NoId THEN consumed \cup {trace_id} ELSE consumed
        /\ CACHE' = c.data
        /\ cacheAge' = c.age
        /\ cacheLru' = c.lru
        /\ eventTables' = IF at = "add_event" THEN eventTables \cup {"upload"}
                          ELSE eventTables
        /\ nextUlid' = IF trace_id # NoId THEN nextUlid ELSE nextUlid + 1
        /\ up' = [up EXCEPT ![r] = Failed(u0, "OperationalError")]
        /\ answer' = Answer(trace_id, "accepted", 0, "")
        /\ response' = NoResponse
        /\ progress_log' = [progress_log EXCEPT ![r] = <<>>]
  /\ UNCHANGED <<unusedMaxsize, cacheMaxsize, issued, eventRows, fileTables>>
  /\ UNCHANGED ragVars
  /\ UNCHANGED NotHttp

\* _update_event when update_event raises: lines 67-69 have written the cache
\* entry, the row keeps what it held
UpdateEventRaises(st, event_id, status, progress, included) ==
  LET touched == CacheTouch(st.cache, event_id)
  IN [st EXCEPT !.cache = [touched EXCEPT
                             !.data[event_id] = EventDict(status, progress, included)],
                !.ok = FALSE]

\* the calls of _update_event in v1_upload: in the loop of the chunks
\* (line 45), after a file is recorded (line 59), after the last file (line 61)
UpdateCalls == {"chunk", "file", "end"}

\* the step of v1_upload in which the call at of _update_event raises in
\* update_event
UploadUpdateRaises(r, at) ==
  /\ Idle
  /\ up[r].pc = "reading"
  /\ up[r].event_id \in DOMAIN CACHE
  /\ (at = "chunk") = (up[r].left > 0)
  /\ at = "end" => up[r].idx = Len(up[r].files)
  /\ LET u == up[r]
         n == Min(u.left, ChunkSize)
         file == u.files[u.idx]
         file_id == FileId(u.event_id, u.idx)
         row == [id |-> file_id, name |-> file.filename, size |-> file.size,
                 upload_id |-> u.event_id]
         included == Include(u.included,
                             [file_id |-> file_id, file_name |-> file.filename])
         st == CASE at = "chunk" ->
                      UpdateEventRaises(Before(r), u.event_id, "running",
                                        Progress(u.current_size + n, u.total_size),
                                        u.included)
                 [] at = "file" ->
                      UpdateEventRaises(Before(r), u.event_id, "running",
                                        u.progress, included)
                 [] at = "end" ->
                      UpdateEventRaises(
                        UpdateEvent(Before(r), u.event_id, "running", u.progress, included),
                        u.event_id, "success", 100, included)
     IN /\ fileTables' = IF at = "chunk" THEN fileTables
                         ELSE _update_file_record(fileTables, u.coll, row)
        /\ Store(r, st)
        /\ up' = [up EXCEPT ![r] = Failed(u, "OperationalError")]
  /\ answer' = NoAnswer
  /\ response' = NoResponse
  /\ UNCHANGED <<UNUSED_ID_CACHE, unusedMaxsize, cacheMaxsize, nextUlid, eventTables, issued, consumed>>
  /\ UNCHANGED ragVars
  /\ UNCHANGED NotHttp

\* the routes of Spec with an event database that may refuse a write
NextDbFails ==
  \/ NextHttp
  \/ \E r \in Uploads, trace_id \in TraceIds, coll \in CollectionNames,
        files \in Attachments, at \in WriteStatements :
       UploadAddEventRaises(r, trace_id, coll, files, at)
  \/ \E r \in Uploads, at \in UpdateCalls : UploadUpdateRaises(r, at)

SpecDbFails == Init /\ [][NextDbFails]_vars

\* C33: between the steps of the handlers (no _update_event is in progress
\* then), every event id in the general cache has a row in the event table
\* "upload", and the cache entry and the row agree on status, progress and
\* included; also after add_event or update_event has raised.
C33_CacheAgreesWithTable ==
  \A id \in DOMAIN CACHE :
    /\ "upload" \in eventTables
    /\ id \in DOMAIN eventRows
    /\ CACHE[id] = eventRows[id]

(***************************************************************************)
(* The files an event lists                                                *)
(***************************************************************************)
\* the table of the collection holds the row of the file the entry names,
\* recorded for the event id
Recorded(coll, id, entry) ==
  /\ coll \in DOMAIN fileTables
  /\ \E row \in fileTables[coll] :
       /\ row.id = entry.file_id
       /\ row.upload_id = id
       /\ row.name = entry.file_name

\* C34: every entry of the included list of an event row names a file that
\* has a row with that file id and with the event id as upload_id in a table
\* of the file database, which is the table of the upload's collection while
\* the upload is in flight.
C34_IncludedFilesAreRecorded ==
  \A id \in DOMAIN eventRows :
    \A i \in DOMAIN eventRows[id].included :
      LET entry == eventRows[id].included[i]
      IN /\ \E coll \in DOMAIN fileTables : Recorded(coll, id, entry)
         /\ \A r \in Uploads :
              (up[r].pc = "reading" /\ up[r].event_id = id) =>
                Recorded(up[r].coll, id, entry)

\* an upload of two files has ended and its event row lists both
C34_Witness ==
  \E id \in DOMAIN eventRows :
    /\ eventRows[id].status = "success"
    /\ Len(eventRows[id].included) = 2
    /\ \A r \in Uploads : up[r].pc = "gone"

(***************************************************************************)
(* The registry of the RAG engine and the vector database                  *)
(***************************************************************************)
PyBool(b) == [kind |-> "bool", b |-> b]

\* how a call of Chroma.from_documents ends: it returns the store; it raises
\* before the client has the collection; it raises after it has got or
\* created the collection, while the documents are embedded and added
BuildOutcomes == {"built", "raised", "broke"}

\* self.vector_stores[collection_name] = Chroma.from_documents(...): the
\* registry is assigned only when the call returns
from_documents(rag, collection_name, outcome) ==
  [ raised |-> outcome # "built",
    rag |-> [ vector_stores |-> IF outcome = "built"
                                  THEN rag.vector_stores \cup {collection_name}
                                  ELSE rag.vector_stores,
              chroma |-> IF outcome = "raised" THEN rag.chroma
                         ELSE rag.chroma \cup {collection_name} ] ]

\* self.delete_collection(collection_name) inside create_collection and
\* update_collection, its result unused.  deleted: the client's
\* delete_collection did not raise
delete_unchecked(rag, collection_name, deleted) ==
  IF collection_name \in rag.vector_stores /\ deleted
    THEN delete_collection(rag, collection_name) ELSE rag

\* RAGSystem.update_collection: a str for a collection that is not loaded,
\* otherwise (True, message) or, from the except clause, (False, message)
update_collection(rag, collection_name, deleted, outcome) ==
  IF collection_name \notin rag.vector_stores
    THEN [rag |-> rag, value |-> <<PyText("Error: Collection not found")>>]
  ELSE LET b == from_documents(delete_unchecked(rag, collection_name, deleted),
                               collection_name, outcome)
       IN [ rag |-> b.rag,
            value |-> << PyTuple(<< PyBool(~b.raised),
                                    PyText(IF b.raised
                                             THEN "Error updating vector store"
                                             ELSE "Collection completely rebuilt") >>) >> ]

\* RAGSystem.modify_collection.  The client's get_collection raises for a
\* name it does not hold, and modify raises for a new name another of its
\* collections bears; nothing catches either
modify_collection(rag, collection_name, new_name) ==
  IF collection_name \notin rag.vector_stores
    THEN [rag |-> rag, raised |-> FALSE,
          value |-> << PyTuple(<<PyBool(FALSE), PyText("Collection not found in memory")>>) >>]
  ELSE IF collection_name \notin rag.chroma
    THEN [rag |-> rag, raised |-> TRUE, value |-> <<>>]
  ELSE IF new_name \in rag.chroma \ {collection_name}
    THEN [rag |-> rag, raised |-> TRUE, value |-> <<>>]
  ELSE [ rag |-> [ vector_stores |-> (rag.vector_stores \ {collection_name}) \cup {new_name},
                   chroma |-> (rag.chroma \ {collection_name}) \cup {new_name} ],
         raised |-> FALSE,
         value |-> << PyTuple(<<PyBool(TRUE), PyText("Collection modified")>>) >> ]

TheRag == [vector_stores |-> vector_stores, chroma |-> chroma]

\* create_collection of a directory with documents, when from_documents
\* raises after the client has got or created the collection
CreateCollectionBreaks(collection_name, deleted) ==
  /\ LET b == from_documents(delete_unchecked(TheRag, collection_name, deleted),
                             collection_name, "broke")
     IN /\ vector_stores' = b.rag.vector_stores
        /\ chroma' = b.rag.chroma
        /\ result' = Returned("create_collection", collection_name, <<>>, <<>>,
                              "Error creating collection")
  /\ UNCHANGED <<routeVars, eventTables, eventRows, fileTables, forgotten, mainVars>>
  /\ UNCHANGED <<poolVars, singletonVars>>

UpdateCollection(collection_name, deleted, outcome) ==
  /\ LET c == update_collection(TheRag, collection_name, deleted, outcome)
     IN /\ vector_stores' = c.rag.vector_stores
        /\ chroma' = c.rag.chroma
        /\ result' = Returned("update_collection", collection_name, <<>>, c.value, "")
  /\ UNCHANGED <<routeVars, eventTables, eventRows, fileTables, forgotten, mainVars>>
  /\ UNCHANGED <<poolVars, singletonVars>>

ModifyCollection(collection_name, new_name) ==
  /\ LET c == modify_collection(TheRag, collection_name, new_name)
     IN /\ vector_stores' = c.rag.vector_stores
        /\ chroma' = c.rag.chroma
        /\ result' = [Returned("modify_collection", collection_name, <<new_name>>,
                               c.value, "")
                        EXCEPT !.raised = c.raised]
  /\ UNCHANGED <<routeVars, eventTables, eventRows, fileTables, forgotten, mainVars>>
  /\ UNCHANGED <<poolVars, singletonVars>>

\* RAGSystem.delete_collection: (True, message), or (False, message) when the
\* client's delete_collection raises
DeleteCollection(collection_name, deleted) ==
  /\ LET loaded == collection_name \in vector_stores
         after == delete_unchecked(TheRag, collection_name, deleted)
     IN /\ vector_stores' = after.vector_stores
        /\ chroma' = after.chroma
        /\ result' = Returned("delete_collection", collection_name, <<>>,
                              << PyTuple(<< PyBool(~loaded \/ deleted),
                                            PyText(IF ~loaded \/ deleted
                                                     THEN "Collection has been forgotten"
                                                     ELSE "Error deleting collection") >>) >>,
                              "")
  /\ UNCHANGED <<routeVars, eventTables, eventRows, fileTables, forgotten, mainVars>>
  /\ UNCHANGED <<poolVars, singletonVars>>

\* the calls that change the collections of the engine
NextCollections ==
  \/ \E collection_name \in CollectionNames, documents \in DocumentCounts,
        built \in BOOLEAN :
       CreateCollection(collection_name, documents, built)
  \/ \E collection_name \in CollectionNames, deleted \in BOOLEAN :
       CreateCollectionBreaks(collection_name, deleted)
  \/ \E collection_name \in CollectionNames, deleted \in BOOLEAN,
        outcome \in BuildOutcomes :
       UpdateCollection(collection_name, deleted, outcome)
  \/ \E collection_name \in CollectionNames, new_name \in CollectionNames :
       ModifyCollection(collection_name, new_name)
  \/ \E collection_name \in CollectionNames, deleted \in BOOLEAN :
       DeleteCollection(collection_name, deleted)

SpecCollections == InitRag /\ [][NextCollections]_vars

\* C35: the names in the registry vector_stores are the names of the
\* collections the vector database holds, after init_vector_store and after
\* every call of create_collection, update_collection, modify_collection and
\* delete_collection.
C35_RegistryIsDatabase == vector_stores = chroma

\* C36: a create_collection on a loaded collection, or an update_collection,
\* that returns a failure result leaves the collection loaded in the registry
\* and present in the vector database.
C36_FailedRelearnKeepsCollection ==
  [][\A name \in CollectionNames :
       ( /\ name \in vector_stores
         /\ \/ /\ \E documents \in DocumentCounts, built \in BOOLEAN :
                    CreateCollection(name, documents, built)
               /\ result'.value = <<>>
            \/ \E deleted \in BOOLEAN : CreateCollectionBreaks(name, deleted)
            \/ /\ \E deleted \in BOOLEAN, outcome \in BuildOutcomes :
                    UpdateCollection(name, deleted, outcome)
               /\ result'.value[1].items[1].b = FALSE )
       => (name \in vector_stores' /\ name \in chroma')]_vars

(***************************************************************************)
(* Where an upload stores a file and where learn looks for documents       *)
(***************************************************************************)
\* strings are sequences of characters, paths are sequences of names
Chars(s) ==
  CASE s = "text/plain" -> <<"t","e","x","t","/","p","l","a","i","n">>
    [] s = "text/markdown" -> <<"t","e","x","t","/","m","a","r","k","d","o","w","n">>
    [] s = "text/html" -> <<"t","e","x","t","/","h","t","m","l">>
    [] s = "text/x-markdown" -> <<"t","e","x","t","/","x","-","m","a","r","k","d","o","w","n">>
    [] s = "application/pdf" -> <<"a","p","p","l","i","c","a","t","i","o","n","/","p","d","f">>
    [] s = ".markdown" -> <<".","m","a","r","k","d","o","w","n">>
    [] s = ".txt" -> <<".","t","x","t">>
    [] s = "upload" -> <<"u","p","l","o","a","d">>
    [] s = "." -> <<".">>
    [] s = "01" -> <<"0","1">>
    [] s = "02" -> <<"0","2">>

\* the content types a client sends with an attachment
ContentTypes ==
  {"text/plain", "text/markdown", "text/x-markdown", "text/html", "application/pdf"}
\* the ulids generate_ulid gives the files
FileUlids == {"01", "02"}

\* s.split(sep)[-1]: what follows the last sep of s, all of s when it has none
RECURSIVE split_last(_, _)
split_last(s, sep) ==
  IF s = <<>> THEN <<>>
  ELSE LET rest == split_last(Tail(s), sep)
       IN IF sep \in {Tail(s)[i] : i \in 1..Len(Tail(s))} THEN rest
          ELSE IF Head(s) = sep THEN Tail(s)
          ELSE s

\* s ends with suffix
EndsWith(s, suffix) ==
  /\ Len(suffix) <= Len(s)
  /\ SubSeq(s, Len(s) - Len(suffix) + 1, Len(s)) = suffix

\* var.CONFIG.upload.dir, the class attribute "./upload" of UploadConfig
UploadDir == <<Chars("."), Chars("upload")>>

\* lines 22-27 of v1_upload: the directory and the name of the file written
file_path(collection_name, content_type, file_id) ==
  LET file_type == split_last(content_type, "/")
  IN [ kind |-> "path",
       dir |-> UploadDir \o <<collection_name, file_type>>,
       name |-> file_id \o <<".">> \o file_type ]

\* f"./upload/{payload.collection_name}", the directory learn passes
learn_dir(collection_name) == <<Chars("."), Chars("upload"), collection_name>>

\* the extensions of RAGSystem.supported_loaders
supported_loaders == {Chars(".markdown"), Chars(".txt")}

\* the files DirectoryLoader(documents_dir, glob="**/*" + extension) loads
\* for the extensions of supported_loaders, among the files written
load_documents(documents_dir, files) ==
  { f \in files :
      /\ IsPrefix(documents_dir, f.dir)
      /\ \E file_extension \in supported_loaders : EndsWith(f.name, file_extension) }

\* v1_upload stores an attachment of the content type
StoreFile(collection_name, content_type, file_id) ==
  /\ result' = Returned("v1_upload", collection_name, <<content_type>>,
                        <<file_path(collection_name, Chars(content_type), Chars(file_id))>>,
                        "")
  /\ UNCHANGED <<routeVars, eventTables, eventRows, fileTables, ragVars, mainVars>>
  /\ UNCHANGED <<poolVars, singletonVars>>

NextFiles ==
  \E collection_name \in CollectionNames, content_type \in ContentTypes,
     file_id \in FileUlids :
    StoreFile(collection_name, content_type, file_id)

SpecFiles == InitRag /\ [][NextFiles]_vars

\* C37: a file stored for an attachment of content type text/plain or
\* text/markdown is among the files load_documents loads from the directory
\* learn passes for the collection.
C37_StoredTextIsIngested ==
  (result.call = "v1_upload" /\ result.used[1] \in {"text/plain", "text/markdown"}) =>
    result.value[1] \in load_documents(learn_dir(result.collection_name),
                                       {result.value[1]})

(***************************************************************************)
(* The managers' operations on a pool of one connection                    *)
(***************************************************************************)
\* a handler or the upload controller calls a method of a manager.  The
\* handlers are coroutines of one event loop, the methods of the managers
\* are synchronous and call no other method of a manager inside their
\* `with self.transaction()` block: a call starts only when no other call is
\* between its get_connection and its return
ManagerCall(t) ==
  /\ \A o \in Threads \ {t} : pc[o] = "idle"
  /\ Request(t)

NextManagers ==
  \/ \E t \in Threads : ManagerCall(t)
  \/ \E t \in Threads : Acquire(t)
  \/ \E t \in Threads : Execute(t)
  \/ \E t \in Threads : ExecuteDDL(t)
  \/ \E t \in Threads : BlockRaise(t)
  \/ \E t \in Threads : Commit(t)
  \/ \E t \in Threads : Rollback(t)
  \/ \E t \in Threads, how \in ReplaceOutcomes : CloseAndReplace(t, how)
  \/ \E t \in Threads : Release(t)
  \/ CloseAll

\* the pool's own code runs on, and so does the block of a manager's method:
\* a few statements with no await, which end by returning or by raising
FairManagers ==
  /\ FairPool
  /\ \A t \in Threads : WF_vars(Commit(t) \/ BlockRaise(t))

SpecManagers == Init /\ [][NextManagers]_vars /\ FairManagers

\* C38: with one connection in the pool and the managers called as the
\* handlers call them, no call finds the pool empty, at most one connection
\* is checked out, and every call that has reached pool.get() gets the
\* connection.
C38_NoCallBlocksForever ==
  /\ [](\A t \in Threads : pc[t] = "waiting" => (pool # <<>> /\ ~blocked[t]))
  /\ [](Cardinality(CheckedOut) <= 1)
  /\ \A t \in Threads : (pc[t] = "waiting") ~> (held[t] # NoConn)

\* a call has got the connection after an earlier call raised and its
\* connection was closed
C38_Witness ==
  /\ ~closedAll
  /\ closed # {}
  /\ \E t \in Threads : pc[t] = "in_block" /\ held[t] # NoConn

(***************************************************************************)
(* Forget and the file database                                            *)
(***************************************************************************)
\* C39: a DELETE /forget of a collection changes no table and no row of the
\* file database, and the file list learn reads for the collection is the
\* same after it as before.
C39_ForgetKeepsFiles ==
  [][\A collection_name \in CollectionNames :
       ( /\ Idle
         /\ response'.route = "forget"
         /\ response'.collection_name = collection_name ) =>
         /\ fileTables' = fileTables
         /\ get_file_list(collection_name, TRUE)' = get_file_list(collection_name, TRUE)]_vars

\* a collection with uploaded files has been forgotten
C39_Witness ==
  /\ response.route = "forget"
  /\ response.status_code = OK
  /\ response.collection_name \in DOMAIN fileTables
  /\ fileTables[response.collection_name] # {}
  /\ response.collection_name \notin vector_stores

(***************************************************************************)
(* The course of an event's status                                         *)
(***************************************************************************)
Statuses == {"pending", "running", "success", "failure"}

\* the place of a status in the course pending, running, success
Rank(status) ==
  CASE status = "pending" -> 0
    [] status = "running" -> 1
    [] status \in {"success", "failure"} -> 2

\* the event GET /event reports for the id: the cache entry, else the row
\* (<<>> when neither holds the id)
Reported(id) ==
  IF id \in DOMAIN CACHE THEN <<CACHE[id]>>
  ELSE IF id \in DOMAIN eventRows THEN <<eventRows[id]>>
  ELSE <<>>

\* the event moves from old to new
MovesForward(old, new) ==
  /\ new.status \in Statuses
  /\ Rank(new.status) >= Rank(old.status)
  /\ old.status = "success" => new = old

\* C40: in no step does the status of an upload event, in its row of the
\* event table or as GET /event reports it, leave the four statuses or go
\* back in the course pending, running, success; and an event whose status
\* is success keeps its status, progress and included list.
C40_StatusMovesForward ==
  [][\A id \in Ulids :
       /\ id \in DOMAIN eventRows =>
            /\ id \in DOMAIN eventRows'
            /\ MovesForward(eventRows[id], eventRows'[id])
       /\ (Reported(id) # <<>> /\ Reported(id)' # <<>>) =>
            MovesForward(Reported(id)[1], Reported(id)'[1])]_vars

====
